---- MODULE Spec2Model ----
(***************************************************************************)
(* A model of the ZooKeeper persistence readers of this repository: the    *)
(* Jute binary decoder (src/src/serde/de.rs), the transaction log reader   *)
(* (src/src/persistence/txnlog.rs), the snapshot reader                     *)
(* (src/src/proto/persistence/snapshot.rs) and segment discovery.          *)
(*                                                                         *)
(* A file is a sequence of bytes (0..255) and a reader is a cursor `pos`   *)
(* into it.  32-bit signed integers are TLA+ integers; 64-bit words and    *)
(* unsigned 32-bit words are kept as their big-endian byte tuples, so that *)
(* no arithmetic leaves the 32-bit range.                                  *)
(***************************************************************************)
EXTENDS Integers, Sequences, FiniteSets, TLC

VARIABLES
    stream,         \* the bytes of the file behind the reader's BufReader<File>
    pos,            \* number of bytes the reader has consumed
    enum_mappings,  \* Deserializer::enum_mappings of the reader's decoder
    reader,         \* which reader object exists: "none", "txnlog", "Init",
                    \* "Sessions", "AclCache", "DataNodes", "failed", "find",
                    \* "decoder", "panicked"
    done,           \* TxnlogFile::done
    count,          \* SnapshotFile::count (a usize)
    errored,        \* SnapshotFile::errored
    zxid,           \* InitState::zxid, while the snapshot reader is in its Init state
    last,           \* what the latest call returned to the caller
    yielded,        \* the Ok items the current iterator has yielded, in order
    errSeen,        \* whether the current iterator has returned an error
    tick,           \* parity of the number of TxnlogFile::next / deserialize calls made
    gen,            \* how the file (or directory) under test was built
    dir,            \* the file names of the directory handed to find_txnlog_paths
    target,         \* the snapshot_zxid handed to find_txnlog / find_txnlog_paths
    files,          \* the TxnlogFiles find_txnlog opened, each [stream, pos, done]
    cur,            \* the index in files of the one the flat_map is reading
    others          \* Deserializer::enum_mappings of each decoder that exists
                    \* beside the reader's

vars == <<stream, pos, enum_mappings, reader, done, count, errored, zxid, last,
          yielded, errSeen, tick, gen, dir, target, files, cur, others>>

-----------------------------------------------------------------------------
(* Bytes and fixed-width words.                                            *)

Byte == 0..255

Min(a, b) == IF a < b THEN a ELSE b

\* s[from+1 .. from+n], the n bytes that follow cursor position `from`
Slice(s, from, n) == [i \in 1..n |-> s[from + i]]

RECURSIVE Concat(_)
Concat(ss) == IF ss = <<>> THEN <<>> ELSE Head(ss) \o Concat(Tail(ss))

\* byteorder::ReadBytesExt::read_i32::<BigEndian> on the four bytes w
I32OfBytes(w) ==
    (IF w[1] >= 128 THEN w[1] - 256 ELSE w[1]) * 16777216
        + w[2] * 65536 + w[3] * 256 + w[4]

\* The big-endian two's complement encoding of v as four bytes (i32::to_be_bytes)
BytesOfI32(v) ==
    LET hi == v \div 16777216      \* floor division: -128..127
        lo == v % 16777216
    IN  << IF hi < 0 THEN hi + 256 ELSE hi,
           lo \div 65536, (lo \div 256) % 256, lo % 256 >>

\* The 8-byte word of a small integer (sign-extended i64::to_be_bytes)
Word64(v) ==
    (IF v < 0 THEN <<255, 255, 255, 255>> ELSE <<0, 0, 0, 0>>) \o BytesOfI32(v)

\* The word, of any width, whose bytes are all zero
IsZeroWord(w) == \A i \in 1..Len(w) : w[i] = 0

\* Unsigned comparison of two words of the same width (u32 / u64 / usize `<`)
RECURSIVE ULess(_, _)
ULess(a, b) ==
    IF a = <<>> THEN FALSE
    ELSE IF Head(a) # Head(b) THEN Head(a) < Head(b)
    ELSE ULess(Tail(a), Tail(b))

\* Signed comparison of two words of the same width (i64 `<`, derived Ord on Zxid)
SLess(a, b) ==
    LET sa == IF a[1] >= 128 THEN a[1] - 256 ELSE a[1]
        sb == IF b[1] >= 128 THEN b[1] - 256 ELSE b[1]
    IN  IF sa # sb THEN sa < sb ELSE ULess(Tail(a), Tail(b))

SLeq(a, b) == a = b \/ SLess(a, b)

-----------------------------------------------------------------------------
(* The code enumerations and OpCodeEnum::codes_to_names.                   *)

\* enum ErrorCode: discriminant -> variant name
ErrorCodeNames ==
    0 :> "Ok" @@ -1 :> "SystemError" @@ -2 :> "RuntimeInconsistency"
    @@ -3 :> "DataInconsistency" @@ -4 :> "ConnectionLoss"
    @@ -5 :> "MarshallingError" @@ -6 :> "Unimplemented"
    @@ -7 :> "OperationTimeout" @@ -8 :> "BadArguments"
    @@ -13 :> "NewConfigNoQuorum" @@ -14 :> "ReconfigInProgress"
    @@ -12 :> "UnknownSession" @@ -100 :> "APIError" @@ -101 :> "NoNode"
    @@ -102 :> "NoAuth" @@ -103 :> "BadVersion"
    @@ -108 :> "NoChildrenForEphemerals" @@ -110 :> "NodeExists"
    @@ -111 :> "NotEmpty" @@ -112 :> "SessionExpired"
    @@ -113 :> "InvalidCallback" @@ -114 :> "InvalidACL"
    @@ -115 :> "AuthFailed" @@ -118 :> "SessionMoved" @@ -119 :> "NotReadOnly"
    @@ -120 :> "EphemeralOnLocalSession" @@ -121 :> "NoWatcher"
    @@ -123 :> "ReconfigDisabled"

\* enum OpCode: discriminant -> variant name
OpCodeNames ==
    0 :> "Notification" @@ 1 :> "Create" @@ 2 :> "Delete" @@ 3 :> "Exists"
    @@ 4 :> "GetData" @@ 5 :> "SetData" @@ 6 :> "GetACL" @@ 7 :> "SetACL"
    @@ 8 :> "GetChildren" @@ 9 :> "Sync" @@ 11 :> "Ping"
    @@ 12 :> "GetChildren2" @@ 13 :> "Check" @@ 14 :> "Multi"
    @@ 15 :> "Create2" @@ 16 :> "Reconfig" @@ 17 :> "CheckWatches"
    @@ 18 :> "RemoveWatches" @@ 19 :> "CreateContainer"
    @@ 20 :> "DeleteContainer" @@ 21 :> "CreateTTL" @@ 100 :> "Auth"
    @@ 101 :> "SetWatches" @@ 102 :> "Sasl" @@ -10 :> "CreateSession"
    @@ -11 :> "CloseSession" @@ -1 :> "Error"

\* enum FooBarCode of the decoder's tests
FooBarCodeNames == 3 :> "Foo" @@ 4 :> "Bar"

\* <E as OpCodeEnum>::codes_to_names(), E given by its name
codes_to_names(E) ==
    CASE E = "OpCode" -> OpCodeNames
      [] E = "ErrorCode" -> ErrorCodeNames
      [] E = "FooBarCode" -> FooBarCodeNames

-----------------------------------------------------------------------------
(* The Jute decoder: serde::de::Deserializer for &mut Deserializer<R>.      *)
(* A shape describes the type being deserialized, as serde's derive walks  *)
(* it.  A decode returns [ok, pos, val, err]: the cursor after the call,   *)
(* the value on success and the error on failure.                          *)

MAX_LENGTH == 1048576

Prim(kind) == [k |-> kind]
SeqOf(s) == [k |-> "seq", of |-> s]
MapOf(key, value) == [k |-> "map", key |-> key, value |-> value]
Struct(fields) == [k |-> "struct", fields |-> fields]
Newtype(s) == [k |-> "newtype", of |-> s]
EnumOf(name, variants) == [k |-> "enum", name |-> name, variants |-> variants]
UnitVariant == [k |-> "unit_variant"]

Ok(p, v) == [ok |-> TRUE, pos |-> p, val |-> v, err |-> "none"]
Fail(p, e) == [ok |-> FALSE, pos |-> p, val |-> <<>>, err |-> e]
\* An Error::Message whose text names the given values
FailNaming(p, e, named) == [ok |-> FALSE, pos |-> p, val |-> named, err |-> e]

\* impl From<std::io::Error> for Error: a short read is ErrorKind::UnexpectedEof
IoErrorToError(kind) ==
    IF kind \in {"WouldBlock", "UnexpectedEof"} THEN "Eof" ELSE "Message"

\* A reader is the sequence of what its reads deliver: bytes, and at the place
\* where a read fails with an error other than a short read, the code of that
\* error's kind
IoFaults == (-1 :> "WouldBlock" @@ -2 :> "Other")

\* The first place after p, within n elements, at which a read fails; 0 if none
FirstFault(s, p, n) ==
    IF \E i \in (p + 1)..Min(p + n, Len(s)) : s[i] < 0
    THEN CHOOSE i \in (p + 1)..Min(p + n, Len(s)) :
            s[i] < 0 /\ \A j \in (p + 1)..(i - 1) : s[j] >= 0
    ELSE 0

\* Read::read_exact of n bytes: a failing read ends it with that read's error;
\* on a short file the bytes left are consumed and it fails with UnexpectedEof
ReadExact(s, p, n) ==
    IF FirstFault(s, p, n) # 0
    THEN Fail(FirstFault(s, p, n) - 1, IoErrorToError(IoFaults[s[FirstFault(s, p, n)]]))
    ELSE IF p + n <= Len(s) THEN Ok(p + n, Slice(s, p, n))
    ELSE Fail(Len(s), IoErrorToError("UnexpectedEof"))

\* read_exact of a buffer whose length is the u32 word w (vec![0; len]): a
\* buffer longer than what is left reads all that is left and one byte more
ReadExactWord(s, p, w) ==
    IF ULess(BytesOfI32(Len(s) - p), w)
    THEN ReadExact(s, p, Len(s) - p + 1)
    ELSE ReadExact(s, p, I32OfBytes(w))

\* std::str::from_utf8 / String::from_utf8: is b well-formed UTF-8
RECURSIVE ValidUtf8(_)
ValidUtf8(b) ==
    IF b = <<>> THEN TRUE
    ELSE LET c == b[1]
             n == Len(b)
             Cont(i) == i <= n /\ b[i] >= 128 /\ b[i] <= 191
             Rest(k) == ValidUtf8(SubSeq(b, k + 1, n))
         IN  IF c < 128 THEN Rest(1)
             ELSE IF c >= 194 /\ c <= 223 THEN Cont(2) /\ Rest(2)
             ELSE IF c >= 224 /\ c <= 239
                  THEN /\ Cont(2) /\ Cont(3)
                       /\ (c = 224 => b[2] >= 160)
                       /\ (c = 237 => b[2] <= 159)
                       /\ Rest(3)
             ELSE IF c >= 240 /\ c <= 244
                  THEN /\ Cont(2) /\ Cont(3) /\ Cont(4)
                       /\ (c = 240 => b[2] >= 144)
                       /\ (c = 244 => b[2] <= 143)
                       /\ Rest(4)
             ELSE FALSE

\* K applied to the value of v, which is computed once
Let(v, K(_)) == CHOOSE y \in {K(x) : x \in {v}} : TRUE

\* The `?` operator: an error ends the function, a success goes on with its value
Bind(r, K(_)) == Let(r, LAMBDA x : IF x.ok THEN K(x) ELSE x)

\* deserialize_bool
deserialize_bool(s, p) ==
    Bind(ReadExact(s, p, 1), LAMBDA r : Ok(r.pos, r.val[1] # 0))

\* deserialize_u8
deserialize_u8(s, p) ==
    Bind(ReadExact(s, p, 1), LAMBDA r : Ok(r.pos, r.val[1]))

\* deserialize_i8
deserialize_i8(s, p) ==
    Bind(ReadExact(s, p, 1),
         LAMBDA r : Ok(r.pos, IF r.val[1] >= 128 THEN r.val[1] - 256 ELSE r.val[1]))

\* deserialize_i32
deserialize_i32(s, p) ==
    Bind(ReadExact(s, p, 4), LAMBDA r : Ok(r.pos, I32OfBytes(r.val)))

\* deserialize_u32: the value is kept as its four bytes
deserialize_u32(s, p) == ReadExact(s, p, 4)

\* deserialize_i64 reading the eight bytes least significant first
deserialize_i64_LittleEndian(s, p) ==
    Bind(ReadExact(s, p, 8), LAMBDA r : Ok(r.pos, [i \in 1..8 |-> r.val[9 - i]]))

\* deserialize_i64 and deserialize_u64: the value is kept as its eight bytes
deserialize_i64(s, p) == ReadExact(s, p, 8)

\* deserialize_string without the comparison with MAX_LENGTH
deserialize_string_NoLimit(s, p) ==
    Bind(ReadExact(s, p, 4), LAMBDA len :
        Bind(ReadExactWord(s, len.pos, len.val), LAMBDA chars :
            IF ValidUtf8(chars.val) THEN chars
            ELSE Fail(chars.pos, "Message:Utf8")))

\* deserialize_string (and deserialize_str): the string is kept as its UTF-8 bytes
deserialize_string(s, p) ==
    Bind(ReadExact(s, p, 4), LAMBDA len :
        IF ULess(BytesOfI32(MAX_LENGTH), len.val) THEN Fail(len.pos, "TooLarge")
        ELSE Bind(ReadExactWord(s, len.pos, len.val), LAMBDA chars :
                IF ValidUtf8(chars.val) THEN chars
                ELSE Fail(chars.pos, "Message:Utf8")))

\* deserialize_byte_buf with the comparison deserialize_string makes
deserialize_byte_buf_Limited(s, p) ==
    Bind(ReadExact(s, p, 4), LAMBDA len :
        IF ULess(BytesOfI32(MAX_LENGTH), len.val) THEN Fail(len.pos, "TooLarge")
        ELSE ReadExactWord(s, len.pos, len.val))

\* deserialize_byte_buf
deserialize_byte_buf(s, p) ==
    Bind(ReadExact(s, p, 4), LAMBDA len : ReadExactWord(s, len.pos, len.val))

\* The deserialize_* methods whose body is unimplemented!()
Unsupported ==
    {"any", "i16", "u16", "char", "bytes", "option", "unit", "unit_struct",
     "identifier", "ignored_any"}

\* An unsupported type answered with an error the caller can handle
deserialize_unsupported_AsError(s, p) == Fail(p, "Message:Unsupported")

\* deserialize_any, deserialize_i16, ...: unimplemented!() panics before
\* anything is read
deserialize_unsupported(s, p) == Fail(p, "Panic")

\* The element count taken from the prefix as it is
SeqSize_Raw(read_size) == read_size

\* The element count deserialize_seq and deserialize_map derive from the prefix
SeqSize(read_size) == IF read_size < 0 THEN 0 ELSE read_size

\* The discriminant read with the two layouts that hold a length exchanged
ReadDiscriminant_Swapped(order, s, p) ==
    IF order = "Type" THEN deserialize_i32(s, p)
    ELSE IF order = "TypeThenLength"
         THEN Bind(deserialize_i32(s, p), LAMBDA len : deserialize_i32(s, len.pos))
    ELSE Bind(deserialize_i32(s, p), LAMBDA typ :
            Bind(deserialize_i32(s, typ.pos), LAMBDA len : Ok(len.pos, typ.val)))

\* JuteEnumAccess::variant_seed, the part that reads the discriminant: the
\* cursor after it and the discriminant, by the registered EnumEncoding
ReadDiscriminant(order, s, p) ==
    IF order = "Type" THEN deserialize_i32(s, p)
    ELSE IF order = "LengthThenType"
         THEN Bind(deserialize_i32(s, p), LAMBDA len : deserialize_i32(s, len.pos))
    ELSE Bind(deserialize_i32(s, p), LAMBDA typ :
            Bind(deserialize_i32(s, typ.pos), LAMBDA len : Ok(len.pos, typ.val)))

RECURSIVE Decode(_, _, _, _)
RECURSIVE DecodeFields(_, _, _, _)
RECURSIVE DecodeElements(_, _, _, _, _)
RECURSIVE DecodeEntries(_, _, _, _, _, _)

\* JuteAccess as SeqAccess driven by a struct or tuple visitor: the fields in
\* declaration order
DecodeFields(fields, reg, s, p) ==
    IF fields = <<>> THEN Ok(p, <<>>)
    ELSE Bind(Decode(Head(fields), reg, s, p), LAMBDA f :
            Bind(DecodeFields(Tail(fields), reg, s, f.pos), LAMBDA rest :
                Ok(rest.pos, <<f.val>> \o rest.val)))

\* A struct read as a sequence is: a count before the fields
deserialize_struct_Counted(fields, reg, s, p) ==
    Bind(ReadExact(s, p, 4), LAMBDA n : DecodeFields(fields, reg, s, n.pos))

\* deserialize_struct: deserialize_tuple(fields.len(), visitor), nothing read
\* but the fields
deserialize_struct(fields, reg, s, p) == DecodeFields(fields, reg, s, p)

\* JuteAccess::next_element_seed driven by Vec's visitor: size elements
DecodeElements(shape, reg, s, p, size) ==
    IF size = 0 THEN Ok(p, <<>>)
    ELSE Bind(Decode(shape, reg, s, p), LAMBDA e :
            Bind(DecodeElements(shape, reg, s, e.pos, size - 1), LAMBDA rest :
                Ok(rest.pos, <<e.val>> \o rest.val)))

\* JuteAccess::next_key_seed / next_value_seed driven by a map visitor
DecodeEntries(key, value, reg, s, p, size) ==
    IF size = 0 THEN Ok(p, <<>>)
    ELSE Bind(Decode(key, reg, s, p), LAMBDA kk :
            Bind(Decode(value, reg, s, kk.pos), LAMBDA vv :
                Bind(DecodeEntries(key, value, reg, s, vv.pos, size - 1), LAMBDA rest :
                    Ok(rest.pos, <<<<kk.val, vv.val>>>> \o rest.val))))

\* The VariantAccess call the derived visitor makes for variant idx: nothing to
\* read for a unit variant, the variant's content otherwise
DecodeVariant(shape, idx, reg, s, p) ==
    IF shape.variants[idx].k = "unit_variant"
    THEN Ok(p, [variant |-> idx, payload |-> <<>>])
    ELSE Bind(Decode(shape.variants[idx], reg, s, p), LAMBDA pl :
            Ok(pl.pos, [variant |-> idx, payload |-> pl.val]))

\* An enum access that hands back any name the code table holds as a variant
EnumVariant_AnyName(shape, mappings, d, reg, s) ==
    IF d.val \notin DOMAIN mappings
    THEN FailNaming(d.pos, "Message:WrongDiscriminant", <<shape.name, d.val>>)
    ELSE IF mappings[d.val] \notin DOMAIN shape.variants
    THEN Ok(d.pos, [variant |-> mappings[d.val], payload |-> <<>>])
    ELSE DecodeVariant(shape, mappings[d.val], reg, s, d.pos)

\* deserialize_enum: JuteEnumAccess::variant_seed, then the variant's content
EnumVariant(shape, mappings, d, reg, s) ==
    IF d.val \notin DOMAIN mappings
    THEN FailNaming(d.pos, "Message:WrongDiscriminant", <<shape.name, d.val>>)
    ELSE IF mappings[d.val] \notin DOMAIN shape.variants
    THEN Fail(d.pos, "Message:UnknownVariant")
    ELSE DecodeVariant(shape, mappings[d.val], reg, s, d.pos)

\* deserialize_enum that reads a discriminant before it looks the type up
deserialize_enum_ReadFirst(shape, reg, s, p) ==
    Bind(deserialize_i32(s, p), LAMBDA d0 :
        IF shape.name \notin DOMAIN reg
        THEN FailNaming(d0.pos, "Message:NoMapping", <<shape.name>>)
        ELSE Bind(ReadDiscriminant(reg[shape.name].order, s, p), LAMBDA d :
                EnumVariant(shape, codes_to_names(reg[shape.name].mappings), d, reg, s)))

deserialize_enum(shape, reg, s, p) ==
    IF shape.name \notin DOMAIN reg
    THEN FailNaming(p, "Message:NoMapping", <<shape.name>>)
    ELSE Bind(ReadDiscriminant(reg[shape.name].order, s, p), LAMBDA d :
            EnumVariant(shape, codes_to_names(reg[shape.name].mappings), d, reg, s))

\* T::deserialize(&mut deser) for a value of the given shape
Decode(shape, reg, s, p) ==
    CASE shape.k = "bool" -> deserialize_bool(s, p)
      [] shape.k = "i8" -> deserialize_i8(s, p)
      [] shape.k = "u8" -> deserialize_u8(s, p)
      [] shape.k = "i32" -> deserialize_i32(s, p)
      [] shape.k = "u32" -> deserialize_u32(s, p)
      [] shape.k \in {"i64", "u64"} -> deserialize_i64(s, p)
      [] shape.k = "string" -> deserialize_string(s, p)
      [] shape.k = "byte_buf" -> deserialize_byte_buf(s, p)
      [] shape.k = "newtype" -> Decode(shape.of, reg, s, p)
      [] shape.k = "struct" -> deserialize_struct(shape.fields, reg, s, p)
      [] shape.k = "seq" ->
            Bind(deserialize_i32(s, p), LAMBDA n :
                DecodeElements(shape.of, reg, s, n.pos, SeqSize(n.val)))
      [] shape.k = "map" ->
            Bind(deserialize_i32(s, p), LAMBDA n :
                DecodeEntries(shape.key, shape.value, reg, s, n.pos, SeqSize(n.val)))
      [] shape.k = "enum" -> deserialize_enum(shape, reg, s, p)
      [] shape.k \in Unsupported -> deserialize_unsupported(s, p)

-----------------------------------------------------------------------------
(* The shapes of the persisted types, field by field as declared.          *)

ZxidT == Newtype(Prim("i64"))               \* pub struct Zxid(pub i64)
TimestampT == Newtype(Prim("u64"))          \* pub struct Timestamp(pub u64)
DurationT == Newtype(Prim("i32"))           \* pub struct Duration(pub i32)
VersionT == Newtype(Prim("i32"))            \* pub struct Version(pub i32)
SessionIdT == Newtype(Prim("i64"))          \* pub struct SessionId(pub i64)
XidT == Newtype(Prim("i32"))                \* pub struct Xid(pub i32)
PermsT == Newtype(Prim("u32"))              \* pub struct Perms(u32)

IdT == Struct(<<Prim("string"), Prim("string")>>)
ACLT == Struct(<<PermsT, IdT>>)

StatPersistedT ==
    Struct(<<ZxidT, ZxidT, TimestampT, TimestampT, VersionT, VersionT, VersionT,
             SessionIdT, ZxidT>>)

FileHeaderT == Struct(<<Prim("i32"), Prim("i32"), Prim("i64")>>)

\* 0x5a4b_4c47, "ZKLG"
TXNLOG_MAGIC == 1514884167
\* 0x5a4b_534e, "ZKSN"
SNAP_MAGIC == 1514885966

TxnHeaderT == Struct(<<SessionIdT, XidT, ZxidT, TimestampT>>)

\* CreateTxn declares data as a plain Vec<u8>: it is read as a sequence of u8
CreateTxnT ==
    Struct(<<Prim("string"), SeqOf(Prim("u8")), SeqOf(ACLT), Prim("bool"), VersionT>>)
CreateContainerTxnT ==
    Struct(<<Prim("string"), Prim("byte_buf"), SeqOf(ACLT), VersionT>>)
CreateTTLTxnT ==
    Struct(<<Prim("string"), Prim("byte_buf"), SeqOf(ACLT), VersionT, Prim("i64")>>)
DeleteTxnT == Struct(<<Prim("string")>>)
SetDataTxnT == Struct(<<Prim("string"), Prim("byte_buf"), VersionT>>)
CheckVersionTxnT == Struct(<<Prim("string"), VersionT>>)
SetACLTxnT == Struct(<<Prim("string"), SeqOf(ACLT), VersionT>>)
CreateSessionTxnT == Struct(<<DurationT>>)

ErrorCodeT ==
    EnumOf("ErrorCode",
           [n \in {ErrorCodeNames[c] : c \in DOMAIN ErrorCodeNames} |-> UnitVariant])

ErrorTxnT == Struct(<<ErrorCodeT>>)

MultiTxnOperationT ==
    EnumOf("MultiTxnOperation",
           "Create" :> CreateTxnT @@ "Create2" :> CreateTxnT
           @@ "CreateTTL" :> CreateTTLTxnT
           @@ "CreateContainer" :> CreateContainerTxnT
           @@ "Delete" :> DeleteTxnT @@ "DeleteContainer" :> DeleteTxnT
           @@ "SetData" :> SetDataTxnT @@ "Error" :> ErrorTxnT
           @@ "Check" :> CheckVersionTxnT)

MultiTxnT == Struct(<<SeqOf(MultiTxnOperationT)>>)

TxnOperationT ==
    EnumOf("TxnOperation",
           "CreateSession" :> CreateSessionTxnT @@ "CloseSession" :> UnitVariant
           @@ "Create" :> CreateTxnT @@ "Create2" :> CreateTxnT
           @@ "CreateTTL" :> CreateTTLTxnT
           @@ "CreateContainer" :> CreateContainerTxnT
           @@ "Delete" :> DeleteTxnT @@ "DeleteContainer" :> DeleteTxnT
           @@ "Reconfig" :> SetDataTxnT @@ "SetData" :> SetDataTxnT
           @@ "SetACL" :> SetACLTxnT @@ "Error" :> ErrorTxnT
           @@ "Multi" :> MultiTxnT)

TxnT == Struct(<<TxnHeaderT, TxnOperationT>>)

ACLRefT == Newtype(Prim("i64"))             \* pub struct ACLRef(i64)
SessionT == Struct(<<SessionIdT, DurationT>>)
ACLCacheEntryT == Struct(<<ACLRefT, SeqOf(ACLT)>>)
DataNodeT == Struct(<<Prim("byte_buf"), ACLRefT, StatPersistedT>>)

\* from_reader: a decoder with no enum mapping
NoMappings == [n \in {} |-> 0]

\* A registry that keeps an entry already there and files the new one beside it
add_enum_mapping_Appending(reg, type_name, E, order) ==
    [n \in DOMAIN reg \cup {IF type_name \in DOMAIN reg THEN type_name \o "+"
                            ELSE type_name} |->
        IF n \in DOMAIN reg THEN reg[n] ELSE [mappings |-> E, order |-> order]]

\* Deserializer::add_enum_mapping / add_enum: HashMap::insert under the type
\* name.  The entry's table E::codes_to_names() is held as E's name.
add_enum_mapping(reg, type_name, E, order) ==
    [n \in DOMAIN reg \cup {type_name} |->
        IF n = type_name THEN [mappings |-> E, order |-> order]
        ELSE reg[n]]

-----------------------------------------------------------------------------
(* What a call hands back to its caller.                                   *)

NoResult == [kind |-> "Start", val |-> <<>>, err |-> "none"]
RNone == [kind |-> "None", val |-> <<>>, err |-> "none"]
ROk(v) == [kind |-> "Ok", val |-> v, err |-> "none"]
\* a constructor or a phase transition returned a reader; v says what it skipped
RReader(v) == [kind |-> "Reader", val |-> v, err |-> "none"]
RErr(e) == [kind |-> "Err", val |-> <<>>, err |-> e]
\* an error whose message names the given values
RErrNaming(e, named) == [kind |-> "Err", val |-> named, err |-> e]
\* the call did not return: it panicked
RPanic == [kind |-> "Panic", val |-> <<>>, err |-> "none"]

-----------------------------------------------------------------------------
(* File names and zxid_from_path.  A file name is a sequence of characters, *)
(* an Option is [some, val].                                                *)

None == [some |-> FALSE, val |-> <<>>]
Some(v) == [some |-> TRUE, val |-> v]

\* char::to_digit(16)
HexVal ==
    "0" :> 0 @@ "1" :> 1 @@ "2" :> 2 @@ "3" :> 3 @@ "4" :> 4 @@ "5" :> 5
    @@ "6" :> 6 @@ "7" :> 7 @@ "8" :> 8 @@ "9" :> 9
    @@ "a" :> 10 @@ "b" :> 11 @@ "c" :> 12 @@ "d" :> 13 @@ "e" :> 14 @@ "f" :> 15
    @@ "A" :> 10 @@ "B" :> 11 @@ "C" :> 12 @@ "D" :> 13 @@ "E" :> 14 @@ "F" :> 15

\* str::starts_with
StartsWith(name, prefix) ==
    Len(name) >= Len(prefix) /\ SubSeq(name, 1, Len(prefix)) = prefix

\* Path::extension of a file name: what follows its last dot, if that dot is
\* not the name's first character
LastDot(name) ==
    IF \E i \in 1..Len(name) : name[i] = "."
    THEN CHOOSE i \in 1..Len(name) :
            name[i] = "." /\ \A j \in (i + 1)..Len(name) : name[j] # "."
    ELSE 0

extension(name) ==
    IF LastDot(name) <= 1 \/ name = <<".", ".">> THEN None
    ELSE Some(SubSeq(name, LastDot(name) + 1, Len(name)))

RECURSIVE StripZeros(_)
StripZeros(ds) ==
    IF ds # <<>> /\ Head(ds) = 0 THEN StripZeros(Tail(ds)) ELSE ds

\* w + 1 on a big-endian word, the carry out of the top byte dropped
RECURSIVE Increment(_)
Increment(w) ==
    IF w = <<>> THEN <<>>
    ELSE IF w[Len(w)] = 255 THEN Increment(SubSeq(w, 1, Len(w) - 1)) \o <<0>>
    ELSE SubSeq(w, 1, Len(w) - 1) \o <<w[Len(w)] + 1>>

\* The two's complement of a word
Negate(w) == Increment([i \in 1..Len(w) |-> 255 - w[i]])

\* The 8-byte word of at most 16 hexadecimal digit values
WordOfNybbles(ds) ==
    [i \in 1..8 |->
        (IF 2 * i - 1 > 16 - Len(ds) THEN ds[2 * i - 1 - (16 - Len(ds))] ELSE 0) * 16
        + (IF 2 * i > 16 - Len(ds) THEN ds[2 * i - (16 - Len(ds))] ELSE 0)]

\* The magnitude part of i64::from_str_radix: digits to a word, None on overflow
ParseMagnitude(ds, negative) ==
    IF Len(ds) > 16 THEN None
    ELSE Let(WordOfNybbles(ds), LAMBDA w :
            IF ~negative THEN (IF w[1] >= 128 THEN None ELSE Some(w))
            ELSE IF ULess(<<128, 0, 0, 0, 0, 0, 0, 0>>, w) THEN None
            ELSE Some(Negate(w)))

\* i64::from_str_radix(ext, 16)
from_str_radix16(ext) ==
    IF ext = <<>> THEN None
    ELSE IF ext[1] \in {"+", "-"} /\ Len(ext) = 1 THEN None
    ELSE Let(IF ext[1] \in {"+", "-"} THEN Tail(ext) ELSE ext, LAMBDA digits :
            IF \E i \in 1..Len(digits) : digits[i] \notin DOMAIN HexVal THEN None
            ELSE ParseMagnitude(StripZeros([i \in 1..Len(digits) |-> HexVal[digits[i]]]),
                                ext[1] = "-"))

\* zxid_from_path
zxid_from_path(name) ==
    IF ~extension(name).some THEN None
    ELSE from_str_radix16(extension(name).val)

-----------------------------------------------------------------------------
(* The transaction log reader, TxnlogFile.                                 *)

\* The registrations without the one of ErrorCode
TxnlogMappings_NoErrorCode ==
    add_enum_mapping(
        add_enum_mapping(NoMappings, "TxnOperation", "OpCode", "Type"),
        "MultiTxnOperation", "OpCode", "TypeThenLength")

\* The registrations TxnlogFile::new makes on a fresh decoder
TxnlogMappings ==
    add_enum_mapping(
        add_enum_mapping(
            add_enum_mapping(NoMappings, "TxnOperation", "OpCode", "Type"),
            "MultiTxnOperation", "OpCode", "TypeThenLength"),
        "ErrorCode", "ErrorCode", "Type")

\* The header check without the comparison of the version
read_header_NoVersion(reg, s, magic) ==
    Bind(Decode(FileHeaderT, reg, s, 0), LAMBDA header :
        IF header.val[1] # magic THEN Fail(header.pos, "Message:WrongMagic")
        ELSE header)

\* The header check shared by TxnlogFile::new and SnapshotFile::new: the header
\* is deserialized, then magic and version are compared
read_header(reg, s, magic) ==
    Bind(Decode(FileHeaderT, reg, s, 0), LAMBDA header :
        IF header.val[1] # magic THEN Fail(header.pos, "Message:WrongMagic")
        ELSE IF header.val[2] # 2 THEN Fail(header.pos, "Message:WrongVersion")
        ELSE header)

\* read_next that does not end the log at a zero length
read_next_NoZeroEnd(reg, s, p) ==
    Bind(deserialize_i64(s, p), LAMBDA crc :
        Bind(deserialize_u32(s, crc.pos), LAMBDA length :
            Bind(Decode(TxnT, reg, s, length.pos), LAMBDA txn :
                Bind(deserialize_u8(s, txn.pos), LAMBDA b :
                    IF b.val # 66 THEN Fail(b.pos, "Message:Partial")
                    ELSE Ok(b.pos, <<txn.val>>)))))

\* read_next that does not compare the guard byte
read_next_NoGuard(reg, s, p) ==
    Bind(deserialize_i64(s, p), LAMBDA crc :
        Bind(deserialize_u32(s, crc.pos), LAMBDA length :
            IF IsZeroWord(length.val) THEN Ok(length.pos, <<>>)
            ELSE Bind(Decode(TxnT, reg, s, length.pos), LAMBDA txn :
                    Bind(deserialize_u8(s, txn.pos), LAMBDA b :
                        Ok(b.pos, <<txn.val>>)))))

\* read_next comparing the checksum with a value it expects
read_next_Checked(reg, s, p) ==
    Bind(deserialize_i64(s, p), LAMBDA crc :
        IF crc.val # <<0, 0, 0, 0, 9, 9, 9, 9>> THEN Fail(crc.pos, "Message:Checksum")
        ELSE Bind(deserialize_u32(s, crc.pos), LAMBDA length :
            IF IsZeroWord(length.val) THEN Ok(length.pos, <<>>)
            ELSE Bind(Decode(TxnT, reg, s, length.pos), LAMBDA txn :
                    Bind(deserialize_u8(s, txn.pos), LAMBDA b :
                        IF b.val # 66 THEN Fail(b.pos, "Message:Partial")
                        ELSE Ok(b.pos, <<txn.val>>)))))

\* read_next, the inner function of TxnlogFile::next: [ok, pos, val, err] where
\* val is <<>> for Ok(None) and <<txn>> for Ok(Some(txn))
read_next(reg, s, p) ==
    Bind(deserialize_i64(s, p), LAMBDA crc :
        Bind(deserialize_u32(s, crc.pos), LAMBDA length :
            IF IsZeroWord(length.val) THEN Ok(length.pos, <<>>)
            ELSE Bind(Decode(TxnT, reg, s, length.pos), LAMBDA txn :
                    Bind(deserialize_u8(s, txn.pos), LAMBDA b :
                        IF b.val # 66 THEN Fail(b.pos, "Message:Partial")
                        ELSE Ok(b.pos, <<txn.val>>)))))

\* A transpose that takes the end of the file for the end of the log
Transpose_EofEnds(r) ==
    IF ~r.ok THEN (IF r.err = "Eof" THEN RNone ELSE RErr(r.err))
    ELSE IF r.val = <<>> THEN RNone
    ELSE ROk(r.val[1])

\* Result::transpose on read_next's result, as TxnlogFile::next returns it
Transpose(r) ==
    IF ~r.ok THEN RErr(r.err)
    ELSE IF r.val = <<>> THEN RNone
    ELSE ROk(r.val[1])

\* A done flag that is never set
DoneAfter_Never(result) == FALSE

\* The value TxnlogFile::next stores in self.done
DoneAfter(result) == result.kind = "None"

\* What one call of TxnlogFile::next makes of the reader: the item returned,
\* the cursor and the done flag
TxnlogStep(r, result) == [result |-> result, pos |-> r.pos, done |-> DoneAfter(result)]

txnlog_next(reg, s, p, d) ==
    IF d THEN [result |-> RNone, pos |-> p, done |-> d]
    ELSE Let(read_next(reg, s, p), LAMBDA r : TxnlogStep(r, Transpose(r)))

\* TxnlogFile::new(path)
TxnlogOpened(header) ==
    /\ pos' = header.pos
    /\ reader' = IF header.ok THEN "txnlog" ELSE "failed"
    /\ last' = IF header.ok THEN RReader(0) ELSE RErr(header.err)

TxnlogNew ==
    /\ reader = "none"
    /\ enum_mappings' = TxnlogMappings
    /\ TxnlogOpened(read_header(TxnlogMappings, stream, TXNLOG_MAGIC))
    /\ done' = FALSE
    /\ UNCHANGED <<stream, count, errored, zxid, yielded, errSeen, tick, gen, dir, target, files, cur, others>>

\* The caller's view of an item an iterator returned
Observe(result) ==
    /\ last' = result
    /\ yielded' = IF result.kind = "Ok" THEN Append(yielded, result.val) ELSE yielded
    /\ errSeen' = (errSeen \/ result.kind = "Err")

\* <TxnlogFile as Iterator>::next
TxnlogNextTo(n) ==
    /\ pos' = n.pos
    /\ done' = n.done
    /\ Observe(n.result)

TxnlogNext ==
    /\ reader = "txnlog"
    /\ TxnlogNextTo(txnlog_next(enum_mappings, stream, pos, done))
    /\ tick' = 1 - tick
    /\ UNCHANGED <<stream, enum_mappings, reader, count, errored, zxid, gen, dir, target, files, cur, others>>

-----------------------------------------------------------------------------
(* TxnlogFile::find_txnlog_paths.  The directory is the sequence of file   *)
(* names read_dir returns; a (zxid, path) pair is [zxid, path].            *)

LogPrefix == <<"l", "o", "g", ".">>

\* The two filters of the collection: the "log." prefix, then a parsed id
RECURSIVE zxid_paths(_)
zxid_paths(names) ==
    IF names = <<>> THEN <<>>
    ELSE (IF StartsWith(Head(names), LogPrefix) /\ zxid_from_path(Head(names)).some
          THEN <<[zxid |-> zxid_from_path(Head(names)).val, path |-> Head(names)]>>
          ELSE <<>>) \o zxid_paths(Tail(names))

\* sort_by on the ids: a stable sort, so pairs of equal id keep their order
RECURSIVE InsertByZxid(_, _)
InsertByZxid(sorted, e) ==
    IF sorted = <<>> THEN <<e>>
    ELSE IF SLess(e.zxid, Head(sorted).zxid) THEN <<e>> \o sorted
    ELSE <<Head(sorted)>> \o InsertByZxid(Tail(sorted), e)

RECURSIVE sort_by_zxid(_)
sort_by_zxid(pairs) ==
    IF pairs = <<>> THEN <<>>
    ELSE InsertByZxid(sort_by_zxid(SubSeq(pairs, 1, Len(pairs) - 1)), pairs[Len(pairs)])

\* max_zxid without the filter on snapshot_zxid
max_zxid_Unfiltered(pairs, snapshot_zxid) ==
    IF pairs = <<>> THEN None ELSE Some(pairs[Len(pairs)].zxid)

\* .filter(|zxid| zxid <= &snapshot_zxid).max()
max_zxid(pairs, snapshot_zxid) ==
    IF \E i \in 1..Len(pairs) : SLeq(pairs[i].zxid, snapshot_zxid)
    THEN Some(CHOOSE z \in {pairs[i].zxid : i \in 1..Len(pairs)} :
                /\ SLeq(z, snapshot_zxid)
                /\ \A j \in 1..Len(pairs) :
                      SLeq(pairs[j].zxid, snapshot_zxid) => SLeq(pairs[j].zxid, z))
    ELSE None

\* The final filter without the file whose id is max_zxid itself
RECURSIVE KeepFrom_After(_, _)
KeepFrom_After(pairs, max) ==
    IF pairs = <<>> THEN <<>>
    ELSE (IF SLeq(Head(pairs).zxid, max) THEN <<>> ELSE <<Head(pairs).path>>)
            \o KeepFrom_After(Tail(pairs), max)

\* .filter_map(|(zxid, path)| if zxid < max_zxid { None } else { Some(path) })
RECURSIVE KeepFrom(_, _)
KeepFrom(pairs, max) ==
    IF pairs = <<>> THEN <<>>
    ELSE (IF SLess(Head(pairs).zxid, max) THEN <<>> ELSE <<Head(pairs).path>>)
            \o KeepFrom(Tail(pairs), max)

find_txnlog_paths(names, snapshot_zxid) ==
    Let(sort_by_zxid(zxid_paths(names)), LAMBDA sorted :
        IF ~max_zxid(sorted, snapshot_zxid).some THEN RErr("Message:NoTxnlogs")
        ELSE ROk(KeepFrom(sorted, max_zxid(sorted, snapshot_zxid).val)))

FindTxnlogPaths ==
    /\ reader = "none"
    /\ reader' = "find"
    /\ last' = find_txnlog_paths(dir, target)
    /\ UNCHANGED <<stream, pos, enum_mappings, done, count, errored, zxid, yielded,
                   errSeen, tick, gen, dir, target, files, cur, others>>

-----------------------------------------------------------------------------
(* TxnlogFile::find_txnlog.  A file on disk is [readable, bytes]; an open  *)
(* TxnlogFile is [stream, pos, done].                                      *)

\* TxnlogFile::new(path) for the file the path names
txnlog_new(file) ==
    IF ~file.readable THEN Fail(0, "Io")
    ELSE read_header(TxnlogMappings, file.bytes, TXNLOG_MAGIC)

\* The fold that leaves out a file that fails to open
RECURSIVE open_all_Tolerant(_, _)
open_all_Tolerant(paths, disk) ==
    IF paths = <<>> THEN Ok(0, <<>>)
    ELSE Let(txnlog_new(disk[Head(paths)]), LAMBDA h :
            Bind(open_all_Tolerant(Tail(paths), disk), LAMBDA rest :
                Ok(0, (IF h.ok
                       THEN <<[stream |-> disk[Head(paths)].bytes, pos |-> h.pos,
                               done |-> FALSE]>>
                       ELSE <<>>) \o rest.val)))

\* paths.into_iter().map(TxnlogFile::new).fold_results(..): every path is
\* opened in order, and the first failure is the result
RECURSIVE open_all(_, _)
open_all(paths, disk) ==
    IF paths = <<>> THEN Ok(0, <<>>)
    ELSE Bind(txnlog_new(disk[Head(paths)]), LAMBDA h :
            Bind(open_all(Tail(paths), disk), LAMBDA rest :
                Ok(0, <<[stream |-> disk[Head(paths)].bytes, pos |-> h.pos,
                         done |-> FALSE]>> \o rest.val)))

\* find_txnlog that goes on with the files that did open
find_txnlog_Tolerant(names, disk, snapshot_zxid) ==
    Let(find_txnlog_paths(names, snapshot_zxid), LAMBDA paths :
        IF paths.kind = "Err" THEN Fail(0, paths.err)
        ELSE open_all_Tolerant(paths.val, disk))

\* find_txnlog up to the construction of the iterator
find_txnlog(names, disk, snapshot_zxid) ==
    Let(find_txnlog_paths(names, snapshot_zxid), LAMBDA paths :
        IF paths.kind = "Err" THEN Fail(0, paths.err)
        ELSE open_all(paths.val, disk))

\* txn.header.zxid of a Txn value
HeaderZxid(txn) == txn[1][3]

\* The filter closure with <= in place of <
Passes_Strict(r, snapshot_zxid) ==
    ~(r.kind = "Ok" /\ SLeq(HeaderZxid(r.val), snapshot_zxid))

\* The closure handed to filter: which items pass
Passes(r, snapshot_zxid) ==
    ~(r.kind = "Ok" /\ SLess(HeaderZxid(r.val), snapshot_zxid))

\* files[c] after a call of its next() that returned n
FileAfter(fs, c, n) ==
    [fs EXCEPT ![c] = [stream |-> fs[c].stream, pos |-> n.pos, done |-> n.done]]

\* next() of files.into_iter().flat_map(|v| v).filter(..): the files are read
\* one after the other, each until its next() returns None, and items are
\* pulled until one passes the filter
RECURSIVE txns_next(_, _, _, _)
txns_next(reg, fs, c, snapshot_zxid) ==
    IF c > Len(fs) THEN [result |-> RNone, files |-> fs, cur |-> c]
    ELSE Let(txnlog_next(reg, fs[c].stream, fs[c].pos, fs[c].done), LAMBDA n :
            IF n.result.kind = "None"
            THEN txns_next(reg, FileAfter(fs, c, n), c + 1, snapshot_zxid)
            ELSE IF ~Passes(n.result, snapshot_zxid)
            THEN txns_next(reg, FileAfter(fs, c, n), c, snapshot_zxid)
            ELSE [result |-> n.result, files |-> FileAfter(fs, c, n), cur |-> c])

\* find_txnlog returned r: the iterator over the opened files, or an error
TxnsOpened(r) ==
    /\ reader' = IF r.ok THEN "txns" ELSE "failed"
    /\ files' = IF r.ok THEN r.val ELSE <<>>
    /\ cur' = 1
    /\ last' = IF r.ok THEN RReader(0) ELSE RErr(r.err)

\* One call of next() on the iterator find_txnlog returned; every item, Ok or
\* Err, is appended to yielded
TxnsStepped(n) ==
    /\ files' = n.files
    /\ cur' = n.cur
    /\ last' = n.result
    /\ yielded' = IF n.result.kind = "None" THEN yielded ELSE Append(yielded, n.result)
    /\ errSeen' = (errSeen \/ n.result.kind = "Err")

-----------------------------------------------------------------------------
(* The snapshot reader, SnapshotFile<S>.  Its count is a usize, held as    *)
(* [wrap, n] for the value 2^64 * wrap + n, so that the cast of a negative *)
(* i32 is kept exactly.                                                    *)

Usize(n) == [wrap |-> 0, n |-> n]

\* `<i32 value> as usize`: the sign-extending cast
AsUsize(v) == [wrap |-> IF v < 0 THEN 1 ELSE 0, n |-> v]

UsizeIsZero(c) == c.wrap = 0 /\ c.n = 0

\* The fields of a SnapshotFile other than its state marker
Snap(p, c, e) == [pos |-> p, count |-> c, errored |-> e]

\* next_item<T, S>: the item returned, then the reader's fields after the call
ItemDecoded(snap, r) ==
    [result |-> IF r.ok THEN ROk(r.val) ELSE RErr(r.err),
     snap |-> Snap(r.pos, [snap.count EXCEPT !.n = @ - 1], snap.errored \/ ~r.ok)]

\* next_item without its test of the count
next_item_Uncounted(shape, reg, s, snap) ==
    IF snap.errored THEN [result |-> RNone, snap |-> snap]
    ELSE ItemDecoded(snap, Decode(shape, reg, s, snap.pos))

next_item(shape, reg, s, snap) ==
    IF UsizeIsZero(snap.count) \/ snap.errored THEN [result |-> RNone, snap |-> snap]
    ELSE ItemDecoded(snap, Decode(shape, reg, s, snap.pos))

\* self.last(): next() is called until it returns None; the fields after it
RECURSIVE Drain(_, _, _, _)
Drain(shape, reg, s, snap) ==
    Let(next_item(shape, reg, s, snap), LAMBDA it :
        IF it.result.kind = "None" THEN it.snap ELSE Drain(shape, reg, s, it.snap))

\* The number of items a drain passes over, errors included
RECURSIVE Drained(_, _, _, _)
Drained(shape, reg, s, snap) ==
    Let(next_item(shape, reg, s, snap), LAMBDA it :
        IF it.result.kind = "None" THEN 0 ELSE 1 + Drained(shape, reg, s, it.snap))

\* new_sessions and new_acl_cache: the count that opens the section is read
\* as an i32 and cast to usize
new_counted(s, p) ==
    Bind(deserialize_i32(s, p), LAMBDA c : Ok(c.pos, AsUsize(c.val)))

\* The drain without the check of the errored flag after it
drain_then_check_Unchecked(shape, reg, s, snap) ==
    Let(Drain(shape, reg, s, snap), LAMBDA after : Ok(after.pos, <<>>))

\* The check of the errored flag without the drain before it
drain_then_check_NoDrain(shape, reg, s, snap) ==
    IF snap.errored THEN Fail(snap.pos, "Message:AlreadyErrored")
    ELSE Ok(snap.pos, <<>>)

\* acls() and data_nodes() up to the construction of the next state: the drain,
\* then the check of the errored flag
drain_then_check(shape, reg, s, snap) ==
    Let(Drain(shape, reg, s, snap), LAMBDA after :
        IF after.errored THEN Fail(after.pos, "Message:AlreadyErrored")
        ELSE Ok(after.pos, <<>>))

\* SnapshotFile<SessionsState>::acls
acls(reg, s, snap) ==
    Bind(drain_then_check(SessionT, reg, s, snap), LAMBDA d : new_counted(s, d.pos))

\* SnapshotFile<ACLCacheState>::data_nodes: new_data_nodes reads nothing and
\* sets count to 1
data_nodes(reg, s, snap) ==
    Bind(drain_then_check(ACLCacheEntryT, reg, s, snap), LAMBDA d : Ok(d.pos, Usize(1)))

\* "/"
RootPath == <<47>>

\* <SnapshotFile<DataNodesState> as Iterator>::next
DataNodeDecoded(snap, path, data) ==
    IF ~data.ok THEN [result |-> RErr(data.err), snap |-> Snap(data.pos, snap.count, TRUE)]
    ELSE [result |-> ROk(<<path.val, data.val>>),
          snap |-> Snap(data.pos, snap.count, snap.errored)]

\* PathDecoded without the test for the path "/"
PathDecoded_NoSentinel(reg, s, snap, path) ==
    IF ~path.ok THEN [result |-> RErr(path.err), snap |-> Snap(path.pos, snap.count, TRUE)]
    ELSE Let(Decode(DataNodeT, reg, s, path.pos),
             LAMBDA data : DataNodeDecoded(snap, path, data))

PathDecoded(reg, s, snap, path) ==
    IF ~path.ok THEN [result |-> RErr(path.err), snap |-> Snap(path.pos, snap.count, TRUE)]
    ELSE IF path.val = RootPath
    THEN [result |-> RNone, snap |-> Snap(path.pos, Usize(0), snap.errored)]
    ELSE Let(Decode(DataNodeT, reg, s, path.pos),
             LAMBDA data : DataNodeDecoded(snap, path, data))

\* next() of the data nodes without its test of the errored flag
data_nodes_next_Retrying(reg, s, snap) ==
    IF UsizeIsZero(snap.count) THEN [result |-> RNone, snap |-> snap]
    ELSE Let(deserialize_string(s, snap.pos), LAMBDA path : PathDecoded(reg, s, snap, path))

data_nodes_next(reg, s, snap) ==
    IF UsizeIsZero(snap.count) \/ snap.errored THEN [result |-> RNone, snap |-> snap]
    ELSE Let(deserialize_string(s, snap.pos), LAMBDA path : PathDecoded(reg, s, snap, path))

\* SnapshotFile::new reading the header before it parses the name
snapshot_new_HeaderFirst(name, s) ==
    Bind(read_header(NoMappings, s, SNAP_MAGIC), LAMBDA header :
        IF ~zxid_from_path(name).some THEN Fail(header.pos, "Message:CantParseVersion")
        ELSE Ok(header.pos, zxid_from_path(name).val))

\* SnapshotFile::new(path): the id is parsed from the name before the file is
\* opened and its header read
snapshot_new(name, s) ==
    IF ~zxid_from_path(name).some THEN Fail(0, "Message:CantParseVersion")
    ELSE Bind(read_header(NoMappings, s, SNAP_MAGIC), LAMBDA header :
            Ok(header.pos, zxid_from_path(name).val))

\* A constructor or transition r made the reader `state`, or failed and left none
Entered(state, r, skipped) ==
    /\ reader' = IF r.ok THEN state ELSE "failed"
    /\ pos' = r.pos
    /\ last' = IF r.ok THEN RReader(skipped) ELSE RErr(r.err)
    /\ errored' = FALSE
    /\ yielded' = <<>>
    /\ errSeen' = FALSE

SnapshotOpened(r) ==
    /\ Entered("Init", r, 0)
    /\ zxid' = IF r.ok THEN r.val ELSE <<>>
    /\ count' = Usize(0)

SnapshotNew ==
    /\ reader = "none"
    /\ enum_mappings' = NoMappings
    /\ SnapshotOpened(snapshot_new(gen.name, stream))
    /\ UNCHANGED <<stream, done, tick, gen, dir, target, files, cur, others>>

\* Counted entering the data nodes whatever state was asked for
Counted_Skipping(state, r, skipped) ==
    /\ Entered("DataNodes", r, skipped)
    /\ count' = IF r.ok THEN r.val ELSE count
    /\ zxid' = <<>>

Counted(state, r, skipped) ==
    /\ Entered(state, r, skipped)
    /\ count' = IF r.ok THEN r.val ELSE count
    /\ zxid' = <<>>

\* SnapshotFile<InitState>::sessions
Sessions ==
    /\ reader = "Init"
    /\ Counted("Sessions", new_counted(stream, pos), 0)
    /\ UNCHANGED <<stream, enum_mappings, done, tick, gen, dir, target, files, cur, others>>

\* The reader's fields after an iterator call, and what the caller saw
Stepped(it) ==
    /\ pos' = it.snap.pos
    /\ count' = it.snap.count
    /\ errored' = it.snap.errored
    /\ Observe(it.result)

\* <&mut SnapshotFile<SessionsState> as Iterator>::next
SessionsNext ==
    /\ reader = "Sessions"
    /\ Stepped(next_item(SessionT, enum_mappings, stream, Snap(pos, count, errored)))
    /\ UNCHANGED <<stream, enum_mappings, reader, done, zxid, tick, gen, dir, target, files, cur, others>>

\* SnapshotFile<SessionsState>::acls
Acls ==
    /\ reader = "Sessions"
    /\ Counted("AclCache",
               acls(enum_mappings, stream, Snap(pos, count, errored)),
               Drained(SessionT, enum_mappings, stream, Snap(pos, count, errored)))
    /\ UNCHANGED <<stream, enum_mappings, done, tick, gen, dir, target, files, cur, others>>

\* <&mut SnapshotFile<ACLCacheState> as Iterator>::next
AclsNext ==
    /\ reader = "AclCache"
    /\ Stepped(next_item(ACLCacheEntryT, enum_mappings, stream, Snap(pos, count, errored)))
    /\ UNCHANGED <<stream, enum_mappings, reader, done, zxid, tick, gen, dir, target, files, cur, others>>

\* SnapshotFile<ACLCacheState>::data_nodes
DataNodes ==
    /\ reader = "AclCache"
    /\ Counted("DataNodes",
               data_nodes(enum_mappings, stream, Snap(pos, count, errored)),
               Drained(ACLCacheEntryT, enum_mappings, stream, Snap(pos, count, errored)))
    /\ UNCHANGED <<stream, enum_mappings, done, tick, gen, dir, target, files, cur, others>>

\* <SnapshotFile<DataNodesState> as Iterator>::next
DataNodesNext ==
    /\ reader = "DataNodes"
    /\ Stepped(data_nodes_next(enum_mappings, stream, Snap(pos, count, errored)))
    /\ UNCHANGED <<stream, enum_mappings, reader, done, zxid, tick, gen, dir, target, files, cur, others>>
-----------------------------------------------------------------------------
(* most_recent_snapshot.  A path is the sequence of its components, each   *)
(* component a sequence of characters.                                     *)

\* The byte of each character the names under test are written with
CharCode ==
    "-" :> 45 @@ "." :> 46
    @@ "0" :> 48 @@ "1" :> 49 @@ "2" :> 50 @@ "3" :> 51 @@ "4" :> 52
    @@ "5" :> 53 @@ "6" :> 54 @@ "7" :> 55 @@ "8" :> 56 @@ "9" :> 57
    @@ "a" :> 97 @@ "d" :> 100 @@ "g" :> 103 @@ "h" :> 104 @@ "l" :> 108
    @@ "n" :> 110 @@ "o" :> 111 @@ "p" :> 112 @@ "s" :> 115 @@ "t" :> 116
    @@ "x" :> 120

\* Ord of two components: byte by byte, a proper prefix first
OsStrLess(a, b) ==
    \E i \in 1..(Len(b)) :
        /\ \A j \in 1..(i - 1) : j <= Len(a) /\ a[j] = b[j]
        /\ i > Len(a) \/ (i <= Len(a) /\ CharCode[a[i]] < CharCode[b[i]])

\* Ord of two paths: component by component, a proper prefix first
PathLess(p, q) ==
    \E i \in 1..(Len(q)) :
        /\ \A j \in 1..(i - 1) : j <= Len(p) /\ p[j] = q[j]
        /\ i > Len(p) \/ (i <= Len(p) /\ OsStrLess(p[i], q[i]))

\* DirEntry::path: the directory's path joined with the entry's file name
entry_path(dirpath, name) == Append(dirpath, name)

\* Path::file_name
file_name(path) == path[Len(path)]

\* The path "snapshot.": one component
SnapshotPrefix == <<"s", "n", "a", "p", "s", "h", "o", "t", ".">>
SnapshotBase == <<SnapshotPrefix>>

\* Path::starts_with: the components of base are the first components of path
PathStartsWith(path, base) ==
    Len(path) >= Len(base) /\ SubSeq(path, 1, Len(base)) = base

\* The entries of read_dir, each as its path, that pass the filter
RECURSIVE filter_paths(_, _)
filter_paths(dirpath, names) ==
    IF names = <<>> THEN <<>>
    ELSE (IF PathStartsWith(entry_path(dirpath, Head(names)), SnapshotBase)
          THEN <<entry_path(dirpath, Head(names))>> ELSE <<>>)
         \o filter_paths(dirpath, Tail(names))

\* Vec::sort: ascending by the paths' Ord
InsertPath(sorted, p) ==
    LET before == {i \in 1..Len(sorted) : ~PathLess(p, sorted[i])}
    IN  SubSeq(sorted, 1, Cardinality(before)) \o <<p>>
            \o SubSeq(sorted, Cardinality(before) + 1, Len(sorted))

RECURSIVE sort(_)
sort(paths) ==
    IF paths = <<>> THEN <<>>
    ELSE InsertPath(sort(SubSeq(paths, 1, Len(paths) - 1)), paths[Len(paths)])

snapshot_paths(dirpath, names) == sort(filter_paths(dirpath, names))

\* Vec::pop
pop(v) == IF v = <<>> THEN None ELSE Some(v[Len(v)])

-----------------------------------------------------------------------------
(* The transaction log files under test.  A file is described by `gen` and *)
(* built byte by byte: a header, records, an optional zero tail, and a     *)
(* number of bytes cut off its end.                                        *)

MaxRecords == 2
MaxCut == 20

\* A string or byte buffer on the wire: 4-byte length, then the bytes
EncString(b) == BytesOfI32(Len(b)) \o b

\* FileHeader { magic, version, dbid }
EncHeader(magic, version) == BytesOfI32(magic) \o BytesOfI32(version) \o Word64(1)

\* "/a"
PathA == <<47, 97>>

\* The operations the records under test hold.  GetData is an OpCode that is
\* no variant of TxnOperation.
TxnOps == {"CloseSession", "Delete", "GetData"}

EncOp(op) ==
    CASE op = "CloseSession" -> BytesOfI32(-11)
      [] op = "Delete" -> BytesOfI32(2) \o EncString(PathA)
      [] op = "GetData" -> BytesOfI32(4)
      [] op = "Error" -> BytesOfI32(-1) \o BytesOfI32(-101)
      [] op = "Multi" ->
            BytesOfI32(14) \o BytesOfI32(2)
                \o BytesOfI32(2) \o BytesOfI32(Len(EncString(PathA))) \o EncString(PathA)
                \o BytesOfI32(-1) \o BytesOfI32(4) \o BytesOfI32(-110)

\* Txn { header: TxnHeader { client_id, cxid, zxid, time }, op } of record i
EncTxn(i, op) ==
    Word64(1) \o BytesOfI32(i) \o Word64(i) \o Word64(7) \o EncOp(op)

\* The value of record i's Txn
TxnValue(i, op) ==
    << <<Word64(1), i, Word64(i), Word64(7)>>,
       [variant |-> op,
        payload |-> IF op = "Delete" THEN <<PathA>> ELSE <<>>] >>

\* One record: checksum, length, Txn, guard byte
EncRecord(i, rec) ==
    <<0, 0, 0, 0, 9, 9, 9, 9>> \o BytesOfI32(Len(EncTxn(i, rec.op)))
        \o EncTxn(i, rec.op) \o <<rec.guard>>

ZeroTail == [i \in 1..16 |-> 0]

RecDescs == [op : TxnOps, guard : {66, 0}]

TxnlogGens ==
    [header : {"ok"},
     recs : UNION {[1..n -> RecDescs] : n \in 0..MaxRecords},
     tail : {"zero", "none"},
     cut : 0..MaxCut]
    \cup [header : {"badmagic", "badversion"},
          recs : [1..1 -> [op : {"CloseSession"}, guard : {66}]],
          tail : {"zero"}, cut : {0}]

\* s without its last n bytes
CutOff(s, n) == SubSeq(s, 1, Len(s) - Min(n, Len(s)))

BuildTxnlog(g) ==
    CutOff((CASE g.header = "ok" -> EncHeader(TXNLOG_MAGIC, 2)
              [] g.header = "badmagic" -> EncHeader(SNAP_MAGIC, 2)
              [] g.header = "badversion" -> EncHeader(TXNLOG_MAGIC, 1))
           \o Concat([i \in 1..Len(g.recs) |-> EncRecord(i, g.recs[i])])
           \o (IF g.tail = "zero" THEN ZeroTail ELSE <<>>),
           g.cut)

InitCommon ==
    /\ pos = 0
    /\ enum_mappings = NoMappings
    /\ reader = "none"
    /\ done = FALSE
    /\ count = Usize(0)
    /\ errored = FALSE
    /\ zxid = <<>>
    /\ last = NoResult
    /\ yielded = <<>>
    /\ errSeen = FALSE
    /\ tick = 0
    /\ files = <<>>
    /\ cur = 0
    /\ others = <<>>

InitTxnlog ==
    /\ gen \in TxnlogGens
    /\ stream = BuildTxnlog(gen)
    /\ dir = <<>>
    /\ target = <<>>
    /\ InitCommon

NextTxnlog == TxnlogNew \/ TxnlogNext

SpecTxnlog == InitTxnlog /\ [][NextTxnlog]_vars

\* The caller keeps calling next(), as Iterator::for_each does
FairTxnlog == SpecTxnlog /\ WF_vars(TxnlogNew) /\ WF_vars(TxnlogNext)

-----------------------------------------------------------------------------
(* The snapshot files under test: a header, the session section, the ACL   *)
(* cache section, data nodes, and a number of bytes cut off the end.       *)

MaxSessions == 2
MaxAcls == 2
MaxNodes == 3
SnapMaxCut == 6

\* Session { id, timeout } number i
EncSession(i) == Word64(i) \o BytesOfI32(30)
SessionValue(i) == <<Word64(i), 30>>

\* ACLCacheEntry { acl_ref, acl: [ACL { perms, id: Id { scheme, id } }] } number
\* i; a "bad" entry holds an id that is no UTF-8
EncAcl(i, d) ==
    Word64(i) \o BytesOfI32(1) \o <<0, 0, 0, 31>> \o EncString(<<119>>)
        \o EncString(IF d = "bad" THEN <<255>> ELSE <<97>>)
AclValue(i) == <<Word64(i), << <<(<<0, 0, 0, 31>>), <<(<<119>>), <<97>>>>>> >> >>

EncStat(i) ==
    Word64(i) \o Word64(i) \o Word64(7) \o Word64(7) \o BytesOfI32(0)
        \o BytesOfI32(0) \o BytesOfI32(0) \o Word64(0) \o Word64(i)
StatValue(i) ==
    <<Word64(i), Word64(i), Word64(7), Word64(7), 0, 0, 0, Word64(0), Word64(i)>>

\* The path of data node i: "/a", "/b", ...
NodePath(i) == <<47, 96 + i>>

\* Entry i of the data node section: a path and a DataNode { data, acl, stat },
\* or the path "/" alone
EncNode(i, d) ==
    IF d = "root" THEN EncString(RootPath)
    ELSE EncString(NodePath(i)) \o EncString(<<i>>) \o Word64(1) \o EncStat(i)
NodeValue(i) == <<NodePath(i), <<(<<i>>), Word64(1), StatValue(i)>> >>

GoodSnapshotName == <<"s", "n", "a", "p", "s", "h", "o", "t", ".", "5">>
BadSnapshotName == <<"s", "n", "a", "p", "s", "h", "o", "t">>

\* sessions and aclCount are the counts written; -1 is written with no record
\* after it
SnapshotGens ==
    [name : {GoodSnapshotName}, header : {"ok"},
     sessions : -1..MaxSessions,
     acls : UNION {[1..n -> {"ok", "bad"}] : n \in 0..MaxAcls},
     aclCount : {0},
     nodes : UNION {[1..n -> {"node", "root"}] : n \in 0..MaxNodes},
     cut : 0..SnapMaxCut]
    \cup [name : {GoodSnapshotName}, header : {"ok"},
          sessions : -1..MaxSessions, acls : {<<>>}, aclCount : {-1},
          nodes : UNION {[1..n -> {"node", "root"}] : n \in 0..MaxNodes},
          cut : {0}]
    \cup [name : {GoodSnapshotName, BadSnapshotName},
          header : {"ok", "badmagic", "badversion"},
          sessions : {0}, acls : {<<>>}, aclCount : {0}, nodes : {<<"root">>},
          cut : {0}]

NumSessions(g) == IF g.sessions < 0 THEN 0 ELSE g.sessions
AclCount(g) == IF g.aclCount < 0 THEN g.aclCount ELSE Len(g.acls)

BuildSnapshot(g) ==
    CutOff((CASE g.header = "ok" -> EncHeader(SNAP_MAGIC, 2)
              [] g.header = "badmagic" -> EncHeader(TXNLOG_MAGIC, 2)
              [] g.header = "badversion" -> EncHeader(SNAP_MAGIC, 1))
           \o BytesOfI32(g.sessions)
           \o Concat([i \in 1..NumSessions(g) |-> EncSession(i)])
           \o BytesOfI32(AclCount(g))
           \o Concat([i \in 1..Len(g.acls) |-> EncAcl(i, g.acls[i])])
           \o Concat([i \in 1..Len(g.nodes) |-> EncNode(i, g.nodes[i])]),
           g.cut)

InitSnapshot ==
    /\ gen \in SnapshotGens
    /\ stream = BuildSnapshot(gen)
    /\ dir = <<>>
    /\ target = <<>>
    /\ InitCommon

NextSnapshot ==
    \/ SnapshotNew
    \/ Sessions
    \/ SessionsNext
    \/ Acls
    \/ AclsNext
    \/ DataNodes
    \/ DataNodesNext

SpecSnapshot == InitSnapshot /\ [][NextSnapshot]_vars

-----------------------------------------------------------------------------
(* The directories under test: up to MaxFiles distinct names.              *)

MaxFiles == 3

FileNames ==
    { <<"l", "o", "g", ".", "1">>,
      <<"l", "o", "g", ".", "5">>,
      <<"l", "o", "g", ".", "0", "5">>,
      <<"l", "o", "g", ".", "a">>,
      <<"l", "o", "g", ".", "-", "1">>,
      <<"l", "o", "g", ".", "g">>,
      <<"l", "o", "g", ".", "1", ".", "x">>,
      <<"l", "o", "g", "s", ".", "3">>,
      <<"s", "n", "a", "p", "s", "h", "o", "t", ".", "2">> }

Targets == {Word64(-2), Word64(0), Word64(5), Word64(7), Word64(16)}

Directories ==
    UNION {{d \in [1..n -> FileNames] : \A i, j \in 1..n : d[i] = d[j] => i = j}
              : n \in 0..MaxFiles}

InitFind ==
    /\ dir \in Directories
    /\ target \in Targets
    /\ gen = <<>>
    /\ stream = <<>>
    /\ InitCommon

NextFind == FindTxnlogPaths

SpecFind == InitFind /\ [][NextFind]_vars

-----------------------------------------------------------------------------
(* The directories of log files find_txnlog is run on.  The file log.<k>   *)
(* holds, by its kind, records of the zxids k and k + 1.                   *)

MaxLogs == 2
MaxItems == 5

LogIds == {1, 3, 5}
LogKinds == {"two", "old", "noend", "partial", "empty", "badmagic", "badversion",
             "unreadable"}

DigitChar(k) == <<"0", "1", "2", "3", "4", "5", "6", "7", "8", "9">>[k + 1]
LogName(k) == LogPrefix \o <<DigitChar(k)>>

GoodRecord == [op |-> "CloseSession", guard |-> 66]
TornRecord == [op |-> "CloseSession", guard |-> 0]

\* The bytes of log.<k> of the given kind
LogBytes(k, kind) ==
    CASE kind = "two" ->
            EncHeader(TXNLOG_MAGIC, 2) \o EncRecord(k, GoodRecord)
                \o EncRecord(k + 1, GoodRecord) \o ZeroTail
      [] kind = "old" ->
            EncHeader(TXNLOG_MAGIC, 2) \o EncRecord(k - 1, GoodRecord)
                \o EncRecord(k, GoodRecord) \o ZeroTail
      [] kind = "noend" -> EncHeader(TXNLOG_MAGIC, 2) \o EncRecord(k, GoodRecord)
      [] kind = "partial" ->
            EncHeader(TXNLOG_MAGIC, 2) \o EncRecord(k, TornRecord)
                \o EncRecord(k + 1, GoodRecord) \o ZeroTail
      [] kind = "empty" -> EncHeader(TXNLOG_MAGIC, 2) \o ZeroTail
      [] kind = "badmagic" ->
            EncHeader(SNAP_MAGIC, 2) \o EncRecord(k, GoodRecord) \o ZeroTail
      [] kind = "badversion" ->
            EncHeader(TXNLOG_MAGIC, 3) \o EncRecord(k, GoodRecord) \o ZeroTail
      [] kind = "unreadable" -> <<>>

\* g.ids[i] and g.kinds[i] describe the i-th entry of the directory
LogDirGens ==
    UNION {{[ids |-> ids, kinds |-> kinds] :
                ids \in {d \in [1..n -> LogIds] : \A i, j \in 1..n : d[i] = d[j] => i = j},
                kinds \in [1..n -> LogKinds]}
              : n \in 0..MaxLogs}

\* The files of the directory by name
Disk(g) ==
    [name \in {LogName(g.ids[i]) : i \in 1..Len(g.ids)} |->
        Let(CHOOSE i \in 1..Len(g.ids) : LogName(g.ids[i]) = name, LAMBDA i :
            [readable |-> g.kinds[i] # "unreadable",
             bytes |-> LogBytes(g.ids[i], g.kinds[i])])]

InitFindTxnlog ==
    /\ gen \in LogDirGens
    /\ dir = [i \in 1..Len(gen.ids) |-> LogName(gen.ids[i])]
    /\ target \in {Word64(2), Word64(3), Word64(4)}
    /\ stream = <<>>
    /\ InitCommon

\* TxnlogFile::find_txnlog(dir, snapshot_zxid)
FindTxnlog ==
    /\ reader = "none"
    /\ enum_mappings' = TxnlogMappings
    /\ TxnsOpened(find_txnlog(dir, Disk(gen), target))
    /\ UNCHANGED <<stream, pos, done, count, errored, zxid, yielded, errSeen, tick,
                   gen, dir, target, others>>

\* next() on the iterator find_txnlog returned
TxnsNext ==
    /\ reader = "txns"
    /\ Len(yielded) < MaxItems
    /\ TxnsStepped(txns_next(enum_mappings, files, cur, target))
    /\ UNCHANGED <<stream, pos, enum_mappings, reader, done, count, errored, zxid,
                   tick, gen, dir, target, others>>

NextFindTxnlog == FindTxnlog \/ TxnsNext

SpecFindTxnlog == InitFindTxnlog /\ [][NextFindTxnlog]_vars

-----------------------------------------------------------------------------
(* Files of either kind handed to either reader: a header of any magic and *)
(* version, whole or short of its last bytes, then a log's or a snapshot's *)
(* content.                                                                *)

MaxShort == 3

OpenGens ==
    [name : {GoodSnapshotName, LogName(5)},
     magic : {TXNLOG_MAGIC, SNAP_MAGIC, 0},
     version : {1, 2, 3},
     body : {"txnlog", "snapshot"},
     short : 0..MaxShort]

TxnlogBody == EncRecord(1, GoodRecord) \o ZeroTail
SnapshotBody ==
    BytesOfI32(1) \o EncSession(1) \o BytesOfI32(1) \o EncAcl(1, "ok")
        \o EncNode(1, "node") \o EncNode(2, "root")

BuildOpen(g) ==
    IF g.short > 0 THEN CutOff(EncHeader(g.magic, g.version), g.short)
    ELSE EncHeader(g.magic, g.version)
            \o (IF g.body = "txnlog" THEN TxnlogBody ELSE SnapshotBody)

InitOpen ==
    /\ gen \in OpenGens
    /\ stream = BuildOpen(gen)
    /\ dir = <<>>
    /\ target = <<>>
    /\ InitCommon

NextOpen == NextTxnlog \/ NextSnapshot

SpecOpen == InitOpen /\ [][NextOpen]_vars

-----------------------------------------------------------------------------
(* Directories handed to most_recent_snapshot: a path, whether it can be   *)
(* listed, and up to MaxEntries files in the order read_dir lists them.    *)
(* A file named snapshot.<...> holds a snapshot, any other a log.          *)

MaxEntries == 3

DirPaths == { <<(<<"d", "a", "t", "a">>)>>, <<SnapshotPrefix>> }

EntryNames ==
    { SnapshotPrefix \o <<"5">>,
      SnapshotPrefix \o <<"9">>,
      SnapshotPrefix \o <<"1", "0">>,
      SnapshotPrefix \o <<"g">>,
      <<"s", "n", "a", "p", "s", "h", "o", "t">>,
      LogName(5) }

Listings ==
    UNION {{d \in [1..n -> EntryNames] : \A i, j \in 1..n : d[i] = d[j] => i = j}
              : n \in 0..MaxEntries}

FileBytes(name) ==
    IF StartsWith(name, SnapshotPrefix)
    THEN EncHeader(SNAP_MAGIC, 2) \o SnapshotBody
    ELSE EncHeader(TXNLOG_MAGIC, 2) \o TxnlogBody

InitMostRecent ==
    /\ gen \in [path : DirPaths, readable : BOOLEAN]
    /\ dir \in Listings
    /\ target = <<>>
    /\ stream = <<>>
    /\ InitCommon

\* SnapshotFile::most_recent_snapshot(dir)
MostRecentSnapshot ==
    /\ reader = "none"
    /\ last = NoResult
    /\ enum_mappings' = NoMappings
    /\ IF ~gen.readable
       THEN SnapshotOpened(Fail(0, "Io")) /\ stream' = stream
       ELSE IF ~pop(snapshot_paths(gen.path, dir)).some
       THEN /\ last' = RNone
            /\ UNCHANGED <<stream, pos, reader, count, errored, zxid, yielded, errSeen>>
       ELSE /\ stream' = FileBytes(file_name(pop(snapshot_paths(gen.path, dir)).val))
            /\ SnapshotOpened(
                   snapshot_new(file_name(pop(snapshot_paths(gen.path, dir)).val),
                                FileBytes(file_name(pop(snapshot_paths(gen.path, dir)).val))))
    /\ UNCHANGED <<done, tick, gen, dir, target, files, cur, others>>

NextMostRecent ==
    \/ MostRecentSnapshot
    \/ Sessions
    \/ SessionsNext
    \/ Acls
    \/ AclsNext
    \/ DataNodes
    \/ DataNodesNext

SpecMostRecent == InitMostRecent /\ [][NextMostRecent]_vars

-----------------------------------------------------------------------------
(* Snapshot files under the names a caller may give them: what follows     *)
(* "snapshot." in the name, or a name without that prefix, and a header of *)
(* each kind before one session, one ACL cache entry and two nodes.        *)

Extensions ==
    { <<"5">>, <<"1", "f">>, <<"0", "A">>, <<"+", "5">>, <<"-", "1">>, <<"g">>, <<>>,
      <<"5", ".", "x">>,
      <<"1", "0", "0", "0", "0", "0", "5", "d", "0">>,
      <<"7", "f", "f", "f", "f", "f", "f", "f", "f", "f", "f", "f", "f", "f", "f", "f">>,
      <<"8", "0", "0", "0", "0", "0", "0", "0", "0", "0", "0", "0", "0", "0", "0", "0">>,
      <<"-", "8", "0", "0", "0", "0", "0", "0", "0", "0", "0", "0", "0", "0", "0", "0", "0">>,
      <<"0", "0", "0", "0", "0", "0", "0", "0", "0", "0", "0", "0", "0", "0", "0", "0", "5">> }

SnapshotNames ==
    {SnapshotPrefix \o e : e \in Extensions} \cup {BadSnapshotName, <<".", "5">>}

NameGens ==
    [name : SnapshotNames, header : {"ok", "badmagic", "badversion"},
     sessions : {1}, acls : {<<"ok">>}, aclCount : {0}, nodes : {<<"node", "root">>},
     cut : {0, 12, 200}]

InitNames ==
    /\ gen \in NameGens
    /\ stream = BuildSnapshot(gen)
    /\ dir = <<>>
    /\ target = <<>>
    /\ InitCommon

SpecNames == InitNames /\ [][NextSnapshot]_vars

-----------------------------------------------------------------------------
(* Whole snapshot files whose data nodes carry any creation and            *)
(* modification ids: one session, one ACL cache entry, up to MaxCaptured   *)
(* nodes and the "/" entry.                                                *)

MaxCaptured == 2

StatIds == {1, 5, 10}

\* StatPersisted { czxid, mzxid, ctime, mtime, version, cversion, aversion,
\* ephemeralOwner, pzxid }
EncStatOf(c, m) ==
    Word64(c) \o Word64(m) \o Word64(7) \o Word64(7) \o BytesOfI32(0)
        \o BytesOfI32(0) \o BytesOfI32(0) \o Word64(0) \o Word64(c)

EncCaptured(i, n) ==
    EncString(NodePath(i)) \o EncString(<<i>>) \o Word64(1) \o EncStatOf(n.c, n.m)

CaptureGens ==
    [name : {SnapshotPrefix \o <<"5">>, SnapshotPrefix \o <<"0", "A">>},
     nodes : UNION {[1..n -> [c : StatIds, m : StatIds]] : n \in 0..MaxCaptured}]

BuildCapture(g) ==
    EncHeader(SNAP_MAGIC, 2) \o BytesOfI32(1) \o EncSession(1)
        \o BytesOfI32(1) \o EncAcl(1, "ok")
        \o Concat([i \in 1..Len(g.nodes) |-> EncCaptured(i, g.nodes[i])])
        \o EncString(RootPath)

InitCapture ==
    /\ gen \in CaptureGens
    /\ stream = BuildCapture(gen)
    /\ dir = <<>>
    /\ target = <<>>
    /\ InitCommon

SpecCapture == InitCapture /\ [][NextSnapshot]_vars

-----------------------------------------------------------------------------
(* Transaction logs record by record: up to MaxRecs records, each with one *)
(* of two checksums; a record holds a Txn and a length field that counts   *)
(* the Txn's bytes and `extra` bytes after them, or has the length 0.      *)

MaxRecs == 2

Checksums == { <<0, 0, 0, 0, 9, 9, 9, 9>>, <<255, 1, 2, 3, 4, 5, 6, 7>> }

RecordDescs ==
    [kind : {"txn"}, crc : Checksums, op : {"CloseSession", "Delete"}, extra : {0, 1}]
    \cup [kind : {"txn"}, crc : {<<0, 0, 0, 0, 9, 9, 9, 9>>}, op : {"Error", "Multi"},
          extra : {0}]
    \cup [kind : {"zero"}, crc : Checksums, op : {"CloseSession"}, extra : {0}]

\* Record i: checksum, length, then the Txn, the extra bytes the length counts
\* and the guard byte
EncRecordOf(i, rec) ==
    IF rec.kind = "zero" THEN rec.crc \o BytesOfI32(0)
    ELSE rec.crc \o BytesOfI32(Len(EncTxn(i, rec.op)) + rec.extra)
            \o EncTxn(i, rec.op) \o [j \in 1..rec.extra |-> 66] \o <<66>>

RecordGens ==
    [recs : UNION {[1..n -> RecordDescs] : n \in 0..MaxRecs}, tail : {"zero", "none"}]

BuildRecords(g) ==
    EncHeader(TXNLOG_MAGIC, 2)
        \o Concat([i \in 1..Len(g.recs) |-> EncRecordOf(i, g.recs[i])])
        \o (IF g.tail = "zero" THEN ZeroTail ELSE <<>>)

InitRecords ==
    /\ gen \in RecordGens
    /\ stream = BuildRecords(gen)
    /\ dir = <<>>
    /\ target = <<>>
    /\ InitCommon

SpecRecords == InitRecords /\ [][NextTxnlog]_vars

-----------------------------------------------------------------------------
(* The decoder on its own: from_reader over a byte buffer, registrations   *)
(* and deserialize calls for one type, as the decoder's tests drive it.    *)

MaxWords == 3
MaxPayload == 2

\* enum FooBar { Foo(i32), Bar(String) } of the decoder's tests
FooBarT == EnumOf("FooBar", "Foo" :> Prim("i32") @@ "Bar" :> Prim("string"))

\* struct NewType(i32) and
\* struct Foo { a: NewType, x: i32, y: String, z: HashMap<i8, String> } of the
\* decoder's tests; a map is kept as its entries in the order read
NewTypeT == Newtype(Prim("i32"))
FooT == Struct(<<NewTypeT, Prim("i32"), Prim("string"), MapOf(Prim("i8"), Prim("string"))>>)

\* struct Opt { x: i32, o: Option<i32> }: a type the wire format cannot hold
OptT == Struct(<<Prim("i32"), Prim("option")>>)

\* The types deserialized, by the name gen.shape gives them
ShapeOf(name) ==
    CASE name \in {"bool", "u8", "i8", "i32", "u32", "i64", "string", "byte_buf"} ->
            Prim(name)
      [] name = "seq_u8" -> SeqOf(Prim("u8"))
      [] name = "seq_string" -> SeqOf(Prim("string"))
      [] name = "map_i8_u8" -> MapOf(Prim("i8"), Prim("u8"))
      [] name = "FooBar" -> FooBarT
      [] name = "Foo" -> FooT
      [] name \in Unsupported -> Prim(name)
      [] name = "Opt" -> OptT
      [] name = "seq_i16" -> SeqOf(Prim("i16"))

\* 4-byte fields: -1, i32::MIN, 0, 1, 2, MAX_LENGTH, MAX_LENGTH + 1, i32::MAX
LengthWords ==
    { <<255, 255, 255, 255>>, <<128, 0, 0, 0>>, <<0, 0, 0, 0>>, <<0, 0, 0, 1>>,
      <<0, 0, 0, 2>>, <<0, 16, 0, 0>>, <<0, 16, 0, 1>>, <<127, 255, 255, 255>> }

\* 4-byte fields of an enum: the codes 3 (Foo), 4 (Bar) and 5 (none), a length
\* of 1, and 0x01020304
EnumWords == { <<0, 0, 0, 3>>, <<0, 0, 0, 4>>, <<0, 0, 0, 5>>, <<0, 0, 0, 1>>, <<1, 2, 3, 4>> }

\* Payload bytes: "a" and a byte that is no UTF-8
Payloads == UNION {[1..n -> {97, 255}] : n \in 0..MaxPayload}

DecoderGens ==
    [shape : {"string", "byte_buf", "seq_u8", "seq_string", "map_i8_u8"},
     words : {<<w>> : w \in LengthWords},
     tail : Payloads]
    \cup [shape : {"FooBar"},
          words : UNION {[1..n -> EnumWords] : n \in 0..MaxWords},
          tail : {<<>>, <<97>>}]

BuildBuffer(g) == Concat(g.words) \o g.tail

InitDecoder ==
    /\ gen \in DecoderGens
    /\ stream = BuildBuffer(gen)
    /\ dir = <<>>
    /\ target = <<>>
    /\ InitCommon

\* de::from_reader(reader)
FromReader ==
    /\ reader = "none"
    /\ reader' = "decoder"
    /\ enum_mappings' = NoMappings
    /\ last' = RReader(0)
    /\ UNCHANGED <<stream, pos, done, count, errored, zxid, yielded, errSeen, tick,
                   gen, dir, target, files, cur, others>>

\* deser.add_enum_mapping::<FooBarCode, FooBar>(order)
AddEnumMapping ==
    /\ reader = "decoder"
    /\ \E order \in {"Type", "TypeThenLength", "LengthThenType"} :
          enum_mappings' = add_enum_mapping(enum_mappings, "FooBar", "FooBarCode", order)
    /\ UNCHANGED <<stream, pos, reader, done, count, errored, zxid, last, yielded,
                   errSeen, tick, gen, dir, target, files, cur, others>>

\* The caller's view of T::deserialize(&mut deser)
Deserialized(r) ==
    /\ pos' = r.pos
    /\ last' = IF r.ok THEN ROk(r.val)
               ELSE IF r.err = "Panic" THEN RPanic
               ELSE RErrNaming(r.err, r.val)
    /\ reader' = IF ~r.ok /\ r.err = "Panic" THEN "panicked" ELSE reader

\* T::deserialize(&mut deser) for the type gen.shape names
Deserialize ==
    /\ reader = "decoder"
    /\ Deserialized(Decode(ShapeOf(gen.shape), enum_mappings, stream, pos))
    /\ tick' = 1 - tick
    /\ UNCHANGED <<stream, enum_mappings, done, count, errored, zxid, yielded,
                   errSeen, gen, dir, target, files, cur, others>>

NextDecoder == FromReader \/ AddEnumMapping \/ Deserialize

SpecDecoder == InitDecoder /\ [][NextDecoder]_vars

-----------------------------------------------------------------------------
(* The registry on its own: any sequence of registrations on one decoder,  *)
(* of the types and code tables the crate registers.                       *)

RegisteredTypes == {"FooBar", "TxnOperation", "ErrorCode"}
CodeTables == {"FooBarCode", "OpCode", "ErrorCode"}
EnumEncodings == {"Type", "TypeThenLength", "LengthThenType"}

InitRegistry ==
    /\ gen = [shape |-> "FooBar", words |-> <<>>, tail |-> <<>>]
    /\ stream = <<>>
    /\ dir = <<>>
    /\ target = <<>>
    /\ InitCommon

\* deser.add_enum_mapping::<E, T>(order), and deser.add_enum::<E>() when T is E
\* and the order is Type
Register ==
    /\ reader = "decoder"
    /\ \E T \in RegisteredTypes, E \in CodeTables, order \in EnumEncodings :
          enum_mappings' = add_enum_mapping(enum_mappings, T, E, order)
    /\ UNCHANGED <<stream, pos, reader, done, count, errored, zxid, last, yielded,
                   errSeen, tick, gen, dir, target, files, cur, others>>

NextRegistry == FromReader \/ Register

SpecRegistry == InitRegistry /\ [][NextRegistry]_vars

-----------------------------------------------------------------------------
(* Decoding sessions side by side: the reader's decoder over a txnlog, a   *)
(* snapshot or a plain buffer, and up to MaxDecoders other decoders that   *)
(* are created and given registrations while it is in use.                 *)

MaxDecoders == 1

SessionGens ==
    [file : {"txnlog", "snapshot", "buffer"}, name : {GoodSnapshotName},
     shape : {"FooBar"}, cut : {0, 3}]

SessionBytes(g) ==
    CutOff(CASE g.file = "txnlog" ->
                    BuildTxnlog([header |-> "ok",
                                 recs |-> <<[op |-> "Delete", guard |-> 66],
                                            [op |-> "Error", guard |-> 66]>>,
                                 tail |-> "zero", cut |-> 0])
             [] g.file = "snapshot" ->
                    BuildSnapshot([name |-> g.name, header |-> "ok", sessions |-> 1,
                                   acls |-> <<"ok">>, aclCount |-> 0,
                                   nodes |-> <<"node", "root">>, cut |-> 0])
             [] g.file = "buffer" ->
                    <<0, 0, 0, 3, 1, 2, 3, 4>> \o <<0, 0, 0, 4>> \o EncString(<<97>>),
           g.cut)

InitSessions ==
    /\ gen \in SessionGens
    /\ stream = SessionBytes(gen)
    /\ dir = <<>>
    /\ target = <<>>
    /\ InitCommon

\* The registries after decoder i of them was given one more registration
\* (&mut self of that decoder)
RegisteredOn(regs, i, T, E, order) ==
    [regs EXCEPT ![i] = add_enum_mapping(regs[i], T, E, order)]

\* de::from_reader(..) for one more decoder: its own HashMap::new()
OtherFromReader ==
    /\ Len(others) < MaxDecoders
    /\ others' = Append(others, NoMappings)
    /\ UNCHANGED <<stream, pos, enum_mappings, reader, done, count, errored, zxid,
                   last, yielded, errSeen, tick, gen, dir, target, files, cur>>

\* A registration that lands in one registry all decoders share
OtherRegister_Shared ==
    /\ \E i \in DOMAIN others :
          /\ others' = RegisteredOn(others, i, "ErrorCode", "ErrorCode", "Type")
          /\ enum_mappings' = add_enum_mapping(enum_mappings, "ErrorCode", "ErrorCode", "Type")
    /\ UNCHANGED <<stream, pos, reader, done, count, errored, zxid,
                   last, yielded, errSeen, tick, gen, dir, target, files, cur>>

\* add_enum_mapping::<FooBarCode, FooBar>(order) or add_enum::<ErrorCode>() on
\* one of the other decoders
OtherRegister ==
    /\ \E i \in DOMAIN others :
          \/ \E order \in EnumEncodings :
                others' = RegisteredOn(others, i, "FooBar", "FooBarCode", order)
          \/ others' = RegisteredOn(others, i, "ErrorCode", "ErrorCode", "Type")
    /\ UNCHANGED <<stream, pos, enum_mappings, reader, done, count, errored, zxid,
                   last, yielded, errSeen, tick, gen, dir, target, files, cur>>

NextSessions ==
    \/ FromReader
    \/ AddEnumMapping
    \/ Deserialize
    \/ TxnlogNew
    \/ TxnlogNext
    \/ SnapshotNew
    \/ Sessions
    \/ SessionsNext
    \/ Acls
    \/ AclsNext
    \/ DataNodes
    \/ DataNodesNext
    \/ OtherFromReader
    \/ OtherRegister

SpecSessions == InitSessions /\ [][NextSessions]_vars

-----------------------------------------------------------------------------
(* The decoder over readers that end early or fail: the encoding of one    *)
(* value, cut short by up to MaxIoCut bytes, with a failing read placed    *)
(* after up to MaxFaultAt of its bytes.                                    *)

MaxIoCut == 3
MaxFaultAt == 3

IoShapes == {"bool", "u8", "i8", "i32", "u32", "i64", "string", "byte_buf"}

\* One encoded value of each type
IoEncoded(name) ==
    CASE name \in {"bool", "u8"} -> <<1>>
      [] name = "i8" -> <<255>>
      [] name \in {"i32", "u32"} -> <<1, 2, 3, 4>>
      [] name = "i64" -> <<1, 2, 3, 4, 5, 6, 7, 8>>
      [] name \in {"string", "byte_buf"} -> EncString(<<97, 97>>)

IoGens ==
    [shape : IoShapes, cut : 0..MaxIoCut, fault : {0}, at : {0}]
    \cup [shape : IoShapes, cut : 0..MaxIoCut, fault : DOMAIN IoFaults, at : 0..MaxFaultAt]

\* The reader's bytes, and the failing read after FaultPlace of them
IoBytes(g) == CutOff(IoEncoded(g.shape), g.cut)
FaultPlace(g) == Min(g.at, Len(IoBytes(g)))

BuildReader(g) ==
    IF g.fault = 0 THEN IoBytes(g)
    ELSE SubSeq(IoBytes(g), 1, FaultPlace(g)) \o <<g.fault>>
            \o SubSeq(IoBytes(g), FaultPlace(g) + 1, Len(IoBytes(g)))

InitIo ==
    /\ gen \in IoGens
    /\ stream = BuildReader(gen)
    /\ dir = <<>>
    /\ target = <<>>
    /\ InitCommon

NextIo == FromReader \/ Deserialize

SpecIo == InitIo /\ [][NextIo]_vars

-----------------------------------------------------------------------------
(* The decoder over encoded Foo values, as test_deser drives it: the       *)
(* fields written one after the other, up to MaxPairs map entries, bytes   *)
(* that follow the value, and a number of bytes cut off the end.           *)

MaxPairs == 2
MaxFooCut == 2

\* 0x01020304, 0x05060708
FooInts == {16909060, 84281096}
\* "", "abcd"
FooStrings == {<<>>, <<97, 98, 99, 100>>}
\* 0x0F, -1
FooKeys == {15, -1}

FooGens ==
    [shape : {"Foo"}, a : FooInts, x : FooInts, y : FooStrings,
     z : UNION {[1..n -> [key : FooKeys, value : FooStrings]] : n \in 0..MaxPairs},
     tail : {<<>>, <<0, 0, 0, 1>>}, cut : 0..MaxFooCut]

EncI8(v) == <<(v + 256) % 256>>

\* The bytes of the value gen describes: a, x, y, then the map as its count
\* and its entries, each key before its value
EncFoo(g) ==
    BytesOfI32(g.a) \o BytesOfI32(g.x) \o EncString(g.y) \o BytesOfI32(Len(g.z))
        \o Concat([i \in 1..Len(g.z) |-> EncI8(g.z[i].key) \o EncString(g.z[i].value)])

FooValue(g) ==
    <<g.a, g.x, g.y, [i \in 1..Len(g.z) |-> <<g.z[i].key, g.z[i].value>>]>>

InitFoo ==
    /\ gen \in FooGens
    /\ stream = CutOff(EncFoo(gen) \o gen.tail, gen.cut)
    /\ dir = <<>>
    /\ target = <<>>
    /\ InitCommon

SpecFoo == InitFoo /\ [][NextIo]_vars

-----------------------------------------------------------------------------
(* The decoder asked for types the wire format does not have, over buffers *)
(* of up to MaxBehind bytes.                                               *)

MaxBehind == 5

UnsupportedGens ==
    [shape : Unsupported \cup {"Opt", "seq_i16"},
     words : {<<>>},
     tail : UNION {[1..n -> {0, 1}] : n \in 0..MaxBehind}]

InitUnsupported ==
    /\ gen \in UnsupportedGens
    /\ stream = gen.tail
    /\ dir = <<>>
    /\ target = <<>>
    /\ InitCommon

SpecUnsupported == InitUnsupported /\ [][NextIo]_vars

-----------------------------------------------------------------------------
(* Claims about the transaction log reader.                                *)

\* C1: once next() has returned an error, every later next() on that reader
\* returns None.
C1_NoneAfterError ==
    [][(reader = "txnlog" /\ errSeen) => last'.kind = "None"]_vars

\* C2: on every file that opens, repeated next() calls reach None after
\* finitely many calls.
C2_ReachesEnd == (reader = "txnlog") ~> (last.kind = "None")

\* A valid header, well-formed records with guard byte 0x42, then a record whose
\* length field is 0
WellFormedLog(g) ==
    /\ g.header = "ok"
    /\ \A i \in 1..Len(g.recs) : g.recs[i].guard = 66 /\ g.recs[i].op # "GetData"
    /\ g.tail = "zero"
    /\ g.cut <= 4

ExpectedTxns(g) == [i \in 1..Len(g.recs) |-> TxnValue(i, g.recs[i].op)]

IsPrefix(a, b) == Len(a) <= Len(b) /\ a = SubSeq(b, 1, Len(a))

\* C3: a log of a valid header, n well-formed records and a zero-length record
\* yields exactly the n transactions as Ok items, in file order, then None, and
\* never an error.
C3_CleanEnd ==
    WellFormedLog(gen) =>
        /\ reader # "failed"
        /\ ~errSeen
        /\ last.kind # "Err"
        /\ IsPrefix(yielded, ExpectedTxns(gen))
        /\ (last.kind = "None" => yielded = ExpectedTxns(gen))

C3_Witness ==
    /\ WellFormedLog(gen)
    /\ Len(gen.recs) >= 2
    /\ last.kind = "None"
    /\ yielded = ExpectedTxns(gen)

\* The record at cursor p has a non-zero length, a Txn that decodes, and a next
\* byte that is not 0x42
PartialAt(reg, s, p) ==
    /\ p + 12 <= Len(s)
    /\ ~IsZeroWord(Slice(s, p + 8, 4))
    /\ Decode(TxnT, reg, s, p + 12).ok
    /\ Decode(TxnT, reg, s, p + 12).pos < Len(s)
    /\ s[Decode(TxnT, reg, s, p + 12).pos + 1] # 66

\* C4: when a record has a non-zero length, its Txn decodes and the byte after
\* it is not 0x42, next() returns the partial-transaction error and yields no
\* transaction for that record.
C4_PartialRecord ==
    [][(reader = "txnlog" /\ ~done /\ PartialAt(enum_mappings, stream, pos))
        => (last'.kind = "Err" /\ last'.err = "Message:Partial" /\ yielded' = yielded)]_vars

C4_Witness ==
    /\ reader = "txnlog"
    /\ last.kind = "Err"
    /\ last.err = "Message:Partial"
    /\ pos > 16

-----------------------------------------------------------------------------
(* Claims about the snapshot reader.                                       *)

SnapshotHeaderEnd == Len(EncHeader(SNAP_MAGIC, 2))

\* The offsets at which the sections of the file built from g end
SessionsEnd(g) == SnapshotHeaderEnd + 4 + NumSessions(g) * Len(EncSession(1))
AclsEnd(g) == SessionsEnd(g) + 4 + Len(g.acls) * Len(EncAcl(1, "ok"))

\* The session section holds its count N >= 0 and N whole records
SessionsIntact(g) == g.sessions >= 0 /\ Len(BuildSnapshot(g)) >= SessionsEnd(g)

\* The ACL cache section holds its count N >= 0 and N whole well-formed records
AclsIntact(g) ==
    /\ g.aclCount >= 0
    /\ \A i \in 1..Len(g.acls) : g.acls[i] = "ok"
    /\ Len(BuildSnapshot(g)) >= AclsEnd(g)

ExpectedSessions(g) == [i \in 1..NumSessions(g) |-> SessionValue(i)]
ExpectedAcls(g) == [i \in 1..Len(g.acls) |-> AclValue(i)]

\* The items the iterator has returned are the first of `expected`, and all of
\* them once it has returned None
YieldsExactly(expected) ==
    /\ ~errSeen
    /\ last.kind # "Err"
    /\ IsPrefix(yielded, expected)
    /\ (last.kind = "None" => yielded = expected)

\* A failure the drain of the remaining items meets, or one met before it
DrainFails(shape) ==
    errSeen \/ Drain(shape, enum_mappings, stream, Snap(pos, count, errored)).errored

\* C5: once an item of the session section failed to decode, whether the
\* caller saw it or the drain inside acls() met it, acls() returns an error and
\* no ACL cache reader; the same holds for data_nodes() and the ACL cache.
C5_FailureBlocksTransition ==
    [][/\ (reader = "Sessions" /\ reader' # "Sessions" /\ DrainFails(SessionT))
            => (reader' = "failed" /\ last'.kind = "Err")
       /\ (reader = "AclCache" /\ reader' # "AclCache" /\ DrainFails(ACLCacheEntryT))
            => (reader' = "failed" /\ last'.kind = "Err")]_vars

C5_Witness ==
    /\ reader = "failed"
    /\ last = RErr("Message:AlreadyErrored")
    /\ Len(gen.acls) = 2
    /\ gen.acls[2] = "bad"
    /\ pos > AclsEnd(gen) - Len(EncAcl(2, "bad"))

\* The readers a caller gets who consumes no item before a transition
SessionsFresh ==
    Let(new_counted(stream, SnapshotHeaderEnd), LAMBDA c : Snap(c.pos, c.val, FALSE))
AclsAfterAll == acls(enum_mappings, stream, SessionsFresh)
AclsFresh == Snap(AclsAfterAll.pos, AclsAfterAll.val, FALSE)
NodesAfterAll == data_nodes(enum_mappings, stream, AclsFresh)

\* C6: however many of the sessions the caller consumed, acls() leaves the
\* reader at the one position and with the one ACL count it has after all of
\* them were consumed; likewise data_nodes() after any number of ACL entries.
C6_SkipsTheRest ==
    [][/\ (reader = "Sessions" /\ reader' = "AclCache")
            => (pos' = AclsAfterAll.pos /\ count' = AclsAfterAll.val
                /\ (SessionsIntact(gen) => pos' = SessionsEnd(gen) + 4)
                /\ (SessionsIntact(gen) /\ gen.aclCount >= 0 =>
                        count' = Usize(AclCount(gen))))
       /\ (reader = "AclCache" /\ reader' = "DataNodes")
            => (pos' = NodesAfterAll.pos
                /\ (AclsIntact(gen) => pos' = AclsEnd(gen)))]_vars

C6_Witness ==
    /\ reader = "AclCache"
    /\ gen.sessions = 2
    /\ last = RReader(1)
    /\ count = Usize(2)

\* The data node section holds well-formed pairs, none of path "/", then "/"
FirstRoot(g) == CHOOSE i \in 1..Len(g.nodes) :
                    g.nodes[i] = "root" /\ \A j \in 1..(i - 1) : g.nodes[j] = "node"
NodesIntact(g) ==
    /\ \E i \in 1..Len(g.nodes) : g.nodes[i] = "root"
    /\ Len(BuildSnapshot(g)) >=
          AclsEnd(g) + (FirstRoot(g) - 1) * Len(EncNode(1, "node"))
              + Len(EncNode(1, "root"))

ExpectedNodes(g) == [i \in 1..(FirstRoot(g) - 1) |-> NodeValue(i)]

\* C7: m well-formed pairs followed by the string "/" make the data node
\* iterator yield exactly the m pairs and never the "/" entry; the call that
\* reads "/" returns None, and so does every later call.
C7_SentinelEnds ==
    [][(reader' = "DataNodes" /\ NodesIntact(gen)) =>
          /\ YieldsExactly(ExpectedNodes(gen))'
          /\ \A i \in 1..Len(yielded') : yielded'[i][1] # RootPath
          /\ (reader = "DataNodes" /\ last.kind = "None") =>
                (last'.kind = "None" /\ pos' = pos)]_vars

C7_Witness ==
    /\ reader = "DataNodes"
    /\ NodesIntact(gen)
    /\ FirstRoot(gen) = 3
    /\ Len(yielded) = 2
    /\ last.kind = "None"

\* C8: a section count N >= 0 followed by N well-formed records makes the
\* session iterator, and the ACL cache iterator, yield exactly N Ok items in
\* file order and then None.
C8_CountedItems ==
    /\ (reader = "Sessions" /\ SessionsIntact(gen)) => YieldsExactly(ExpectedSessions(gen))
    /\ (reader = "AclCache" /\ AclsIntact(gen)) => YieldsExactly(ExpectedAcls(gen))

C8_Witness ==
    /\ reader = "AclCache"
    /\ AclsIntact(gen)
    /\ gen.sessions = 2
    /\ Len(yielded) = 2
    /\ last.kind = "None"

\* C9: a negative count read by sessions() or acls() is a section of zero
\* elements: its iterator returns None, and the next transition succeeds, the
\* bytes right after the count being the next section's.
C9_NegativeCountIsEmpty ==
    [][/\ (reader = "Sessions" /\ gen.sessions < 0 /\ Len(stream) >= SessionsEnd(gen) + 4)
            => IF reader' = "Sessions" THEN last'.kind = "None"
               ELSE reader' = "AclCache" /\ pos' = SessionsEnd(gen) + 4
       /\ (reader = "AclCache" /\ gen.aclCount < 0)
            => IF reader' = "AclCache" THEN last'.kind = "None"
               ELSE reader' = "DataNodes" /\ pos' = AclsEnd(gen)]_vars

-----------------------------------------------------------------------------
(* Claims about find_txnlog_paths.                                         *)

\* The entries of the directory named log.<hex> whose extension parses
Candidates == {i \in 1..Len(dir) :
                  StartsWith(dir[i], LogPrefix) /\ zxid_from_path(dir[i]).some}
IdOf(name) == zxid_from_path(name).val

\* i is a candidate whose id is the greatest that is <= target
IsStart(i) ==
    /\ i \in Candidates
    /\ SLeq(IdOf(dir[i]), target)
    /\ \A j \in Candidates : SLeq(IdOf(dir[j]), target) => SLeq(IdOf(dir[j]), IdOf(dir[i]))

\* C10: with s the greatest id <= target among the files log.<hex> whose
\* extension parses, find_txnlog_paths returns exactly the paths of the files
\* of id >= s, in ascending order of id.
C10_FromStartAscending ==
    (reader = "find" /\ \E i \in 1..Len(dir) : IsStart(i)) =>
        /\ last.kind = "Ok"
        /\ \A s \in 1..Len(dir) : IsStart(s) =>
              /\ {last.val[k] : k \in 1..Len(last.val)}
                    = {dir[i] : i \in {c \in Candidates : SLeq(IdOf(dir[s]), IdOf(dir[c]))}}
              /\ Len(last.val)
                    = Cardinality({c \in Candidates : SLeq(IdOf(dir[s]), IdOf(dir[c]))})
        /\ \A k \in 1..(Len(last.val) - 1) : SLeq(IdOf(last.val[k]), IdOf(last.val[k + 1]))

\* the files of ids 1, 5 and 10 with a target of 7: the result is 5, then 10
C10_Witness ==
    /\ reader = "find"
    /\ target = Word64(7)
    /\ {dir[i] : i \in 1..Len(dir)} =
          {<<"l", "o", "g", ".", "1">>, <<"l", "o", "g", ".", "5">>, <<"l", "o", "g", ".", "a">>}
    /\ last = ROk(<< <<"l", "o", "g", ".", "5">>, <<"l", "o", "g", ".", "a">> >>)

-----------------------------------------------------------------------------
(* Claims about find_txnlog.                                               *)

\* The segments find_txnlog_paths discovers, in its order
Discovered == find_txnlog_paths(dir, target).val

\* The first n items of a segment's own iterator, and whether it ended (with
\* None) within them
RECURSIVE OwnItems(_, _, _, _)
OwnItems(s, p, d, n) ==
    IF n = 0 THEN [items |-> <<>>, ended |-> FALSE]
    ELSE Let(txnlog_next(TxnlogMappings, s, p, d), LAMBDA x :
            IF x.result.kind = "None" THEN [items |-> <<>>, ended |-> TRUE]
            ELSE Let(OwnItems(s, x.pos, x.done, n - 1), LAMBDA rest :
                    [items |-> <<x.result>> \o rest.items, ended |-> rest.ended]))

\* A segment holds at most two records, so MaxItems + 2 of its items hold
\* MaxItems that are no transaction
OwnOf(path) ==
    OwnItems(Disk(gen)[path].bytes, Len(EncHeader(TXNLOG_MAGIC, 2)), FALSE, MaxItems + 2)

IsOld(r) == r.kind = "Ok" /\ SLess(r.val[1][3], target)
WithoutOld(items) == SelectSeq(items, LAMBDA r : ~IsOld(r))

\* The concatenation of the segments' item sequences from the i-th on, the old
\* transactions removed; it stops at a segment whose sequence does not end
RECURSIVE ExpectedFrom(_)
ExpectedFrom(i) ==
    IF i > Len(Discovered) THEN [items |-> <<>>, ended |-> TRUE]
    ELSE Let(OwnOf(Discovered[i]), LAMBDA own :
            IF ~own.ended THEN [items |-> WithoutOld(own.items), ended |-> FALSE]
            ELSE Let(ExpectedFrom(i + 1), LAMBDA rest :
                    [items |-> WithoutOld(own.items) \o rest.items,
                     ended |-> rest.ended]))

\* C12: the items find_txnlog's iterator produces are the concatenation, in
\* segment order, of each discovered segment's own items, less exactly the Ok
\* transactions of a zxid below the target: a transaction of the target's zxid
\* is kept and no error item is removed.
C12_ConcatenatedAndFiltered ==
    reader = "txns" =>
        /\ IsPrefix(yielded, ExpectedFrom(1).items)
        /\ last.kind = "None" =>
              (ExpectedFrom(1).ended /\ yielded = ExpectedFrom(1).items)
        /\ \A k \in 1..Len(yielded) :
              yielded[k].kind = "Ok" => SLeq(target, yielded[k].val[1][3])

\* two segments read to their ends, an old transaction dropped, the target's kept
C12_Witness ==
    /\ reader = "txns"
    /\ last.kind = "None"
    /\ Len(Discovered) = 2
    /\ Len(yielded) = 3
    /\ \A k \in 1..3 : yielded[k].kind = "Ok"
    /\ yielded[1].val[1][3] = target
    /\ IsOld(OwnOf(Discovered[1]).items[1])

\* The discovered segment fails to open
FailsToOpen(path) ==
    \E i \in 1..Len(gen.ids) :
        /\ LogName(gen.ids[i]) = path
        /\ gen.kinds[i] \in {"unreadable", "badmagic", "badversion"}

\* C13: find_txnlog opens every discovered segment before it yields anything;
\* if one of them fails to open, it returns an error and no transaction of any
\* segment is ever yielded.
C13_AllOpenOrNone ==
    /\ reader = "txns" =>
          (Len(files) = Len(Discovered) /\ \A i \in 1..Len(Discovered) : ~FailsToOpen(Discovered[i]))
    /\ (reader # "none" /\ find_txnlog_paths(dir, target).kind = "Ok"
            /\ \E i \in 1..Len(Discovered) : FailsToOpen(Discovered[i]))
          => (reader = "failed" /\ last.kind = "Err" /\ yielded = <<>>)

\* the first segment opens, the second does not
C13_Witness ==
    /\ reader = "failed"
    /\ find_txnlog_paths(dir, target).kind = "Ok"
    /\ Len(Discovered) = 2
    /\ ~FailsToOpen(Discovered[1])
    /\ FailsToOpen(Discovered[2])

-----------------------------------------------------------------------------
(* Claims about the file header.                                           *)

\* The file holds a whole header of magic m and version 2
HeaderFits(m) == gen.short = 0 /\ gen.magic = m /\ gen.version = 2

\* C14: a transaction log reader exists only for a header of magic 0x5A4B4C47
\* and version 2, a snapshot reader only for magic 0x5A4B534E and version 2; on
\* a mismatch the open returns an error, no reader exists and no record is
\* read: each reader rejects the other's files.
C14_HeaderGuardsReaders ==
    /\ reader = "txnlog" => (HeaderFits(1514884167) /\ TXNLOG_MAGIC = 1514884167)
    /\ reader \in {"Init", "Sessions", "AclCache", "DataNodes"}
          => (HeaderFits(1514885966) /\ SNAP_MAGIC = 1514885966)
    /\ ~(HeaderFits(TXNLOG_MAGIC) \/ HeaderFits(SNAP_MAGIC))
          => /\ reader \in {"none", "failed"}
             /\ yielded = <<>>
             /\ reader = "failed" => last.kind = "Err"

\* the transaction log reader was handed a well-formed snapshot file
C14_Witness ==
    /\ reader = "failed"
    /\ enum_mappings = TxnlogMappings
    /\ HeaderFits(SNAP_MAGIC)
    /\ gen.body = "snapshot"
    /\ last = RErr("Message:WrongMagic")

-----------------------------------------------------------------------------
(* Claims about the decoder.                                               *)

\* The step is a deserialize call of the type named
Deserializes(name) == reader = "decoder" /\ tick' # tick /\ gen.shape = name

\* A 4-byte field lies at offset p, and its value as a signed integer
FieldAt(p) == p + 4 <= Len(stream)
SignedAt(p) == I32OfBytes(Slice(stream, p, 4))

\* C15: a sequence or a map whose 4-byte count is negative decodes to an empty
\* container, never to an error, and exactly the 4 bytes of the count are
\* consumed.
C15_NegativeCountEmptyContainer ==
    [][(/\ \E n \in {"seq_u8", "seq_string", "map_i8_u8"} : Deserializes(n)
        /\ FieldAt(pos)
        /\ SignedAt(pos) < 0)
          => (last' = ROk(<<>>) /\ pos' = pos + 4)]_vars

\* a map of count -1 with bytes after the count
C15_Witness ==
    /\ reader = "decoder"
    /\ gen.shape = "map_i8_u8"
    /\ gen.words = << <<255, 255, 255, 255>> >>
    /\ Len(gen.tail) = 2
    /\ last = ROk(<<>>)
    /\ pos = 4

\* FooBar is registered with the layout
RegisteredAs(order) ==
    "FooBar" \in DOMAIN enum_mappings /\ enum_mappings["FooBar"].order = order

\* Where the layout puts the discriminant and the payload of an enum at pos
DiscriminantAt(order) == IF order = "LengthThenType" THEN pos + 4 ELSE pos
PayloadAt(order) == IF order = "Type" THEN pos + 4 ELSE pos + 8

\* The caller's view of the variant whose payload decoded to pl
VariantOf(name, pl) ==
    IF pl.ok THEN ROk([variant |-> name, payload |-> pl.val]) ELSE RErr(pl.err)

\* C16: an enum of a registered type is read as its 4-byte discriminant for
\* the layout Type, the discriminant and a discarded length for TypeThenLength,
\* a discarded length and the discriminant for LengthThenType; the variant is
\* the one the code table names (3 is Foo, 4 is Bar) and its payload is decoded
\* from the bytes right after.
C16_EnumLayouts ==
    [][\A order \in {"Type", "TypeThenLength", "LengthThenType"} :
          (/\ Deserializes("FooBar")
           /\ RegisteredAs(order)
           /\ PayloadAt(order) <= Len(stream))
          => /\ SignedAt(DiscriminantAt(order)) = 3 =>
                  /\ last' = VariantOf("Foo", deserialize_i32(stream, PayloadAt(order)))
                  /\ FieldAt(PayloadAt(order)) =>
                        /\ last'.kind = "Ok"
                        /\ last'.val.payload = SignedAt(PayloadAt(order))
                        /\ pos' = PayloadAt(order) + 4
             /\ SignedAt(DiscriminantAt(order)) = 4 =>
                  /\ last' = VariantOf("Bar", deserialize_string(stream, PayloadAt(order)))
                  /\ pos' = deserialize_string(stream, PayloadAt(order)).pos]_vars

\* 00 00 00 03 01 02 03 04 with the layout Type is Foo(0x01020304)
C16_Witness ==
    /\ reader = "decoder"
    /\ RegisteredAs("Type")
    /\ stream = <<0, 0, 0, 3, 1, 2, 3, 4>>
    /\ last = ROk([variant |-> "Foo", payload |-> 16909060])
    /\ pos = 8

\* C17: an enum whose type has no registry entry fails with a mapping error
\* and no byte is consumed; an enum whose discriminant is not in the registered
\* table fails with a mapping error that names the type and the code; neither
\* produces a variant.
C17_MappingErrors ==
    [][/\ (Deserializes("FooBar") /\ "FooBar" \notin DOMAIN enum_mappings)
            => (last' = RErrNaming("Message:NoMapping", <<"FooBar">>) /\ pos' = pos)
       /\ \A order \in {"Type", "TypeThenLength", "LengthThenType"} :
            (/\ Deserializes("FooBar")
             /\ RegisteredAs(order)
             /\ PayloadAt(order) <= Len(stream)
             /\ SignedAt(DiscriminantAt(order)) \notin {3, 4})
            => last' = RErrNaming("Message:WrongDiscriminant",
                                  <<"FooBar", SignedAt(DiscriminantAt(order))>>)]_vars

\* the code 5 read after a discarded length
C17_Witness ==
    /\ reader = "decoder"
    /\ RegisteredAs("LengthThenType")
    /\ last = RErrNaming("Message:WrongDiscriminant", <<"FooBar", 5>>)
    /\ pos = 8

\* C18: a string whose 4-byte length, read as a signed integer, is negative or
\* above 1048576 fails and no payload byte is consumed, with the size-limit
\* error when the length is above the maximum; a length L from 0 to 1048576
\* consumes exactly L payload bytes.
C18_StringLength ==
    [][(Deserializes("string") /\ FieldAt(pos)) =>
          /\ (SignedAt(pos) < 0 \/ SignedAt(pos) > 1048576)
                => (last'.kind = "Err" /\ pos' = pos + 4)
          /\ SignedAt(pos) > 1048576 => (last'.err = "TooLarge" /\ MAX_LENGTH = 1048576)
          /\ (SignedAt(pos) >= 0 /\ SignedAt(pos) <= 1048576
                /\ pos + 4 + SignedAt(pos) <= Len(stream))
                => pos' = pos + 4 + SignedAt(pos)]_vars

\* a length of 1048577 with payload bytes after it
C18_Witness ==
    /\ reader = "decoder"
    /\ gen.shape = "string"
    /\ gen.words = << <<0, 16, 0, 1>> >>
    /\ Len(gen.tail) = 2
    /\ last.err = "TooLarge"
    /\ pos = 4

-----------------------------------------------------------------------------
(* most_recent_snapshot over a directory that can be listed.               *)

\* The entries of the directory whose file name is snapshot.<...>
SnapshotNamed == {i \in 1..Len(dir) : StartsWith(dir[i], SnapshotPrefix)}

\* Entry i is the snapshot-named entry whose path is lexicographically last
LexLast(i) ==
    /\ i \in SnapshotNamed
    /\ \A j \in SnapshotNamed :
          ~PathLess(entry_path(gen.path, dir[i]), entry_path(gen.path, dir[j]))

Called == last # NoResult
ReturnedNone == reader = "none" /\ last = RNone
HoldsReader == reader \notin {"none", "failed"}

\* The call's outcome is that of opening the file of this name
OpenedAs(name) ==
    IF snapshot_new(name, FileBytes(name)).ok
    THEN /\ HoldsReader
         /\ stream = FileBytes(name)
         /\ zxid = snapshot_new(name, FileBytes(name)).val
    ELSE reader = "failed" /\ last = RErr(snapshot_new(name, FileBytes(name)).err)

\* C19: most_recent_snapshot(dir) returns none only when the directory
\* contains no file named snapshot.<...>; when the directory contains at
\* least one such file it opens the one whose path is lexicographically last.
C19_NoneOnlyWithoutSnapshots ==
    Called /\ gen.readable =>
        /\ ReturnedNone <=> SnapshotNamed = {}
        /\ \A i \in SnapshotNamed : LexLast(i) => OpenedAs(dir[i])

\* C20: most_recent_snapshot(dir) finds the most recent snapshot: among the
\* snapshot files of the directory, the one it opens has the numerically
\* greatest transaction id encoded in its file name.
C20_OpensGreatestId ==
    Called /\ gen.readable /\ HoldsReader =>
        \A i \in SnapshotNamed :
            zxid_from_path(dir[i]).some => SLeq(zxid_from_path(dir[i]).val, zxid)

-----------------------------------------------------------------------------
(* The phases of a snapshot reader.                                        *)

PhaseRank ==
    "none" :> 0 @@ "Init" :> 1 @@ "Sessions" :> 2 @@ "AclCache" :> 3
    @@ "DataNodes" :> 4 @@ "failed" :> 5

\* The item at position p is the one the section of this phase holds there
IsItemOf(phase, item, p) ==
    CASE phase = "Sessions" ->
            /\ Decode(SessionT, enum_mappings, stream, p).ok
            /\ item = Decode(SessionT, enum_mappings, stream, p).val
      [] phase = "AclCache" ->
            /\ Decode(ACLCacheEntryT, enum_mappings, stream, p).ok
            /\ item = Decode(ACLCacheEntryT, enum_mappings, stream, p).val
      [] phase = "DataNodes" ->
            /\ deserialize_string(stream, p).ok
            /\ Decode(DataNodeT, enum_mappings, stream,
                      deserialize_string(stream, p).pos).ok
            /\ item = <<deserialize_string(stream, p).val,
                        Decode(DataNodeT, enum_mappings, stream,
                               deserialize_string(stream, p).pos).val>>
      [] OTHER -> FALSE

\* C21: in any sequence of calls on one snapshot reader the phase only moves
\* Init -> Sessions -> AclCache -> DataNodes: a call that changes the phase
\* enters the next one or leaves no reader, so each phase is entered at most
\* once and none is skipped or revisited; and a call that yields an item leaves
\* the phase as it is and yields an item of that phase's section.
C21_ForwardOnly ==
    [][/\ reader' # reader =>
            /\ reader # "failed"
            /\ (reader' = "failed" \/ PhaseRank[reader'] = PhaseRank[reader] + 1)
       /\ Len(yielded') = Len(yielded) + 1 =>
            /\ reader' = reader
            /\ IsItemOf(reader, yielded'[Len(yielded')], pos)]_vars

C21_Witness ==
    /\ reader = "DataNodes"
    /\ gen.sessions = 2
    /\ Len(gen.acls) = 2
    /\ Len(yielded) = 2
    /\ last.kind = "Ok"

\* C22: after a decode failure inside a snapshot phase (Sessions, AclCache or
\* DataNodes), every subsequent next() call on that phase returns an error and
\* never signals a normal end of the section: while the reader stays in the
\* phase in which the caller saw an item fail, the last item it was given is
\* an error.  Stated for the files whose counts are not negative.
C22_FailureIsSticky ==
    (/\ gen.sessions >= 0
     /\ gen.aclCount >= 0
     /\ reader \in {"Sessions", "AclCache", "DataNodes"}
     /\ errSeen) => last.kind = "Err"

-----------------------------------------------------------------------------
(* Claims about the decoder's errors.                                      *)

\* The bytes a value of the type gen.shape names takes from position p: the
\* size of a primitive, and for a string or a byte buffer its length field and
\* the bytes that field counts
BytesNeeded(p) ==
    CASE gen.shape \in {"bool", "u8", "i8"} -> 1
      [] gen.shape \in {"i32", "u32"} -> 4
      [] gen.shape = "i64" -> 8
      [] gen.shape \in {"string", "byte_buf"} ->
            IF FirstFault(stream, p, 4) # 0 \/ Len(stream) - p < 4 THEN 4
            ELSE 4 + I32OfBytes(Slice(stream, p, 4))

\* The stream ends before the bytes needed from position p are available
EndsEarly(p) ==
    FirstFault(stream, p, BytesNeeded(p)) = 0 /\ Len(stream) - p < BytesNeeded(p)

DeserializeStep == reader = "decoder" /\ tick' # tick

\* C23: whenever the stream ends before all bytes needed by a primitive, string
\* or byte buffer are available, decoding fails with the end-of-stream error
\* (Error::Eof); and Error::Eof is produced only when the stream ends early,
\* never for another kind of I/O failure.
C23_EofIsTruncation ==
    [][DeserializeStep =>
          /\ EndsEarly(pos) => (last'.kind = "Err" /\ last'.err = "Eof")
          /\ (last'.kind = "Err" /\ last'.err = "Eof") => EndsEarly(pos)]_vars

-----------------------------------------------------------------------------
(* Claims about the names of snapshot files.                               *)

\* The id each extension under test stands for, written out by hand; the
\* extensions that are no hexadecimal i64 have none
IdWritten(e) ==
    CASE e \in {<<"5">>, <<"+", "5">>,
                <<"0", "0", "0", "0", "0", "0", "0", "0", "0", "0", "0", "0", "0", "0",
                  "0", "0", "5">>} -> Some(<<0, 0, 0, 0, 0, 0, 0, 5>>)
      [] e = <<"1", "f">> -> Some(<<0, 0, 0, 0, 0, 0, 0, 31>>)
      [] e = <<"0", "A">> -> Some(<<0, 0, 0, 0, 0, 0, 0, 10>>)
      [] e = <<"-", "1">> -> Some(<<255, 255, 255, 255, 255, 255, 255, 255>>)
      [] e = <<"1", "0", "0", "0", "0", "0", "5", "d", "0">> ->
            Some(<<0, 0, 0, 1, 0, 0, 5, 208>>)
      [] e = <<"7", "f", "f", "f", "f", "f", "f", "f", "f", "f", "f", "f", "f", "f",
               "f", "f">> -> Some(<<127, 255, 255, 255, 255, 255, 255, 255>>)
      [] e = <<"-", "8", "0", "0", "0", "0", "0", "0", "0", "0", "0", "0", "0", "0",
               "0", "0", "0">> -> Some(<<128, 0, 0, 0, 0, 0, 0, 0>>)
      [] OTHER -> None

\* The id written in a file name: that of what follows "snapshot.", none for
\* the names without an extension
IdInName(name) ==
    IF StartsWith(name, SnapshotPrefix)
    THEN IdWritten(SubSeq(name, Len(SnapshotPrefix) + 1, Len(name)))
    ELSE None

\* C24: SnapshotFile::new parses the transaction id from the hexadecimal
\* extension of the file name before it opens the file: if the extension is
\* missing or is no base-16 64-bit integer the open fails with the error of the
\* name, whatever the file holds and with nothing read from it; and when the
\* open succeeds zxid() is exactly the id in the name, whatever the file holds.
C24_IdFromName ==
    [][(reader = "none" /\ reader' # "none") =>
          /\ ~IdInName(gen.name).some =>
                /\ reader' = "failed"
                /\ last' = RErr("Message:CantParseVersion")
                /\ pos' = 0
          /\ reader' = "Init" =>
                /\ IdInName(gen.name).some
                /\ zxid' = IdInName(gen.name).val]_vars

C24_Witness ==
    /\ reader = "Init"
    /\ gen.name = SnapshotPrefix \o <<"1", "0", "0", "0", "0", "0", "5", "d", "0">>
    /\ zxid = <<0, 0, 0, 1, 0, 0, 5, 208>>
    /\ gen.cut = 12

-----------------------------------------------------------------------------
(* Claims about the ids of the data nodes.                                 *)

\* The greater of two ids
MaxWord(a, b) == IF SLess(a, b) THEN b ELSE a

\* The maximum of the czxid and mzxid fields of the data nodes yielded, from 0
RECURSIVE MaxSeen(_)
MaxSeen(items) ==
    IF items = <<>> THEN Word64(0)
    ELSE MaxWord(MaxSeen(SubSeq(items, 1, Len(items) - 1)),
                 MaxWord(items[Len(items)][2][3][1], items[Len(items)][2][3][2]))

\* The maximum of the czxid and mzxid fields the file was written with, from 0
MaxStored(g) ==
    Word64(CHOOSE v \in StatIds \cup {0} :
              /\ v = 0 \/ \E i \in 1..Len(g.nodes) : v \in {g.nodes[i].c, g.nodes[i].m}
              /\ \A i \in 1..Len(g.nodes) : g.nodes[i].c <= v /\ g.nodes[i].m <= v)

\* The file opened and its three sections were read through without error
ReadThrough == reader = "DataNodes" /\ last.kind = "None" /\ ~errSeen

\* C25: for every snapshot file that opens and whose three sections are read
\* through without error, the maximum of the czxid and mzxid fields over all
\* yielded data nodes equals the id encoded in the file name.
C25_MaxIsNameId ==
    ReadThrough => MaxSeen(yielded) = IdInName(gen.name).val

\* C25 as it holds: the reader compares nothing with the name; the maximum of
\* the czxid and mzxid fields over all yielded data nodes is the maximum of
\* those the file holds, and so equals the id encoded in the file name exactly
\* for the files that were written that way.
C25_MaxIsWhatIsStored ==
    ReadThrough =>
        /\ MaxSeen(yielded) = MaxStored(gen)
        /\ MaxSeen(yielded) = IdInName(gen.name).val
              <=> MaxStored(gen) = IdInName(gen.name).val

C25_Witness ==
    /\ ReadThrough
    /\ Len(yielded) = 2
    /\ gen.name = SnapshotPrefix \o <<"0", "A">>
    /\ MaxSeen(yielded) = <<0, 0, 0, 0, 0, 0, 0, 10>>
    /\ gen.nodes[1].m = 10

-----------------------------------------------------------------------------
(* Claims about the records of a transaction log.                          *)

\* The length field of the record at cursor p
LengthAt(p) == I32OfBytes(Slice(stream, p + 8, 4))

\* C26: after every txnlog next() that yields a transaction, the reader has
\* consumed for that record exactly 8 (checksum) + 4 (length) + length + 1
\* (guard) bytes: the byte checked against 0x42 is the one located length bytes
\* after the length field.
C26_ConsumesLength ==
    [][(reader = "txnlog" /\ Len(yielded') = Len(yielded) + 1) =>
          pos' = pos + 8 + 4 + LengthAt(pos) + 1]_vars

\* The record at cursor p is whole up to its length field, and that field is 0
ZeroLengthAt(p) == p + 12 <= Len(stream) /\ IsZeroWord(Slice(stream, p + 8, 4))

\* C27: when txnlog next() meets a record whose length is 0 it consumes exactly
\* the 12 bytes of checksum and length and returns None; every later next()
\* returns None and reads nothing from the stream, even if well-formed records
\* follow the zero-length record in the file.
C27_ZeroLengthEnds ==
    [][reader = "txnlog" =>
          /\ (~done /\ ZeroLengthAt(pos)) =>
                (last'.kind = "None" /\ pos' = pos + 12 /\ done' /\ yielded' = yielded)
          /\ done => (last'.kind = "None" /\ pos' = pos /\ done' /\ yielded' = yielded)]_vars

\* The calls went on after the zero-length record that two records follow
C27_Witness ==
    /\ reader = "txnlog"
    /\ Len(gen.recs) = 2
    /\ gen.recs[1].kind = "zero"
    /\ gen.recs[2].kind = "txn"
    /\ done
    /\ pos = 16 + 12
    /\ tick = 0
    /\ yielded = <<>>

\* The stream with the checksum bytes of the record at cursor p replaced
WithChecksum(s, p, crc) ==
    [i \in 1..Len(s) |-> IF i > p /\ i <= p + 8 THEN crc[i - p] ELSE s[i]]

\* C28: the outcome of a txnlog next() call (transaction yielded, end of the
\* stream, or error) and the number of bytes it consumes do not depend on the
\* value of the record's 8 checksum bytes: over a log that differs only in the
\* checksum bytes of the record read, the call returns the same item and
\* leaves the same cursor and done flag.
C28_ChecksumIgnored ==
    [][(reader = "txnlog" /\ tick' # tick) =>
          \A crc \in Checksums \cup {<<0, 0, 0, 0, 0, 0, 0, 0>>} :
              /\ last' = txnlog_next(enum_mappings, WithChecksum(stream, pos, crc),
                                     pos, done).result
              /\ pos' = txnlog_next(enum_mappings, WithChecksum(stream, pos, crc),
                                    pos, done).pos
              /\ done' = txnlog_next(enum_mappings, WithChecksum(stream, pos, crc),
                                     pos, done).done]_vars

\* Two transactions were yielded from records of different checksums
C28_Witness ==
    /\ reader = "txnlog"
    /\ Len(gen.recs) = 2
    /\ gen.recs[1].crc # gen.recs[2].crc
    /\ Len(yielded) = 2

-----------------------------------------------------------------------------
(* Claims about the decoder's registry.                                    *)

\* The names of the enum types a value of the shape may hold
RECURSIVE EnumsIn(_)
EnumsIn(shape) ==
    CASE shape.k = "enum" ->
            {shape.name}
                \cup UNION {EnumsIn(shape.variants[v]) : v \in DOMAIN shape.variants}
      [] shape.k = "struct" -> UNION {EnumsIn(shape.fields[i]) : i \in DOMAIN shape.fields}
      [] shape.k \in {"seq", "newtype"} -> EnumsIn(shape.of)
      [] shape.k = "map" -> EnumsIn(shape.key) \cup EnumsIn(shape.value)
      [] OTHER -> {}

\* C29: after TxnlogFile::new succeeds, the decoder's registry holds entries for
\* TxnOperation (layout Type), MultiTxnOperation (layout TypeThenLength) and
\* ErrorCode (layout Type), which are all the enum types reachable from the Txn
\* shape; hence no next() call fails with the error of an unregistered enum
\* type.
C29_TxnEnumsRegistered ==
    reader = "txnlog" =>
        /\ EnumsIn(TxnT) = {"TxnOperation", "MultiTxnOperation", "ErrorCode"}
        /\ EnumsIn(TxnT) \subseteq DOMAIN enum_mappings
        /\ enum_mappings["TxnOperation"] = [mappings |-> "OpCode", order |-> "Type"]
        /\ enum_mappings["MultiTxnOperation"] =
              [mappings |-> "OpCode", order |-> "TypeThenLength"]
        /\ enum_mappings["ErrorCode"] = [mappings |-> "ErrorCode", order |-> "Type"]
        /\ ~(last.kind = "Err" /\ last.err = "Message:NoMapping")

\* An Error transaction and a Multi transaction that holds an Error were yielded
C29_Witness ==
    /\ reader = "txnlog"
    /\ Len(gen.recs) = 2
    /\ gen.recs[1].op = "Error"
    /\ gen.recs[2].op = "Multi"
    /\ Len(yielded) = 2
    /\ yielded[1][2].variant = "Error"
    /\ yielded[2][2].variant = "Multi"

\* One more registration of the type under the table and layout
Registered(reg, T, E, order) == add_enum_mapping(reg, T, E, order)

\* C30: registering the same (type name, code table, layout) twice on a decoder
\* leaves its registry identical to registering it once; and after any sequence
\* of registrations the registry holds at most one entry per type name: its
\* entries are those of the type names registered, one each, and a type's entry
\* is found under its name.
C30_RegisterIdempotent ==
    reader = "decoder" =>
        /\ DOMAIN enum_mappings \subseteq RegisteredTypes
        /\ \A T \in RegisteredTypes, E \in CodeTables, order \in EnumEncodings :
              /\ Registered(Registered(enum_mappings, T, E, order), T, E, order)
                    = Registered(enum_mappings, T, E, order)
              /\ DOMAIN Registered(enum_mappings, T, E, order)
                    = DOMAIN enum_mappings \cup {T}

\* All three types are registered, one of them under a layout given later
C30_Witness ==
    /\ reader = "decoder"
    /\ DOMAIN enum_mappings = RegisteredTypes
    /\ enum_mappings["FooBar"] = [mappings |-> "FooBarCode", order |-> "LengthThenType"]
    /\ enum_mappings["ErrorCode"] = [mappings |-> "ErrorCode", order |-> "Type"]

-----------------------------------------------------------------------------
(* Claims about the registry across decode operations and decoders.        *)

\* The reader objects that decode
Decoding == {"decoder", "txnlog", "Init", "Sessions", "AclCache", "DataNodes"}

\* A step in which the reader was asked to decode or to move on: the caller
\* sees a result, a cursor or a phase that is new
DecodeCalled ==
    /\ reader \in Decoding
    /\ <<pos, last, tick, reader, done, count, errored, yielded>>'
          # <<pos, last, tick, reader, done, count, errored, yielded>>

\* C31: no decode operation (a primitive or structured decode, txnlog next(),
\* snapshot next() or a phase transition) modifies the enum registry of its
\* decoder, and a registration made on one decoder never changes the registry
\* of another decoder.
C31_RegistryFrame ==
    [][/\ DecodeCalled => (enum_mappings' = enum_mappings /\ others' = others)
       /\ enum_mappings' # enum_mappings => others' = others
       /\ others' # others => enum_mappings' = enum_mappings
       /\ \A i, j \in DOMAIN others :
             i # j => (others'[i] = others[i] \/ others'[j] = others[j])]_vars

\* The txnlog reader has yielded both transactions while another decoder holds
\* a registration the reader's own registry does not have
C31_Witness ==
    /\ reader = "txnlog"
    /\ Len(yielded) = 2
    /\ Len(others) = 1
    /\ "FooBar" \in DOMAIN others[1]
    /\ "FooBar" \notin DOMAIN enum_mappings

-----------------------------------------------------------------------------
(* Claims about structs.                                                   *)

\* C32: decoding a struct with declared fields f1..fn consumes exactly the
\* concatenation of the encodings of f1..fn in declaration order, with no
\* length prefix and no field names, and a newtype wrapper adds no bytes; a map
\* field inside it is read as a 4-byte count followed by that many key/value
\* pairs, key before value.  For Foo { a: NewType, x, y, z: map }: the first
\* decode over a buffer that holds the fields' encodings returns the fields'
\* values and stops right after them, and fails if they are not all there.
C32_StructIsItsFields ==
    [][(DeserializeStep /\ pos = 0) =>
          IF Len(EncFoo(gen)) <= Len(stream)
          THEN last' = ROk(FooValue(gen)) /\ pos' = Len(EncFoo(gen))
          ELSE last'.kind = "Err"]_vars

\* A Foo with two different map entries and different a and x was decoded from
\* a buffer that goes on after it
C32_Witness ==
    /\ reader = "decoder"
    /\ last = ROk(FooValue(gen))
    /\ pos = Len(EncFoo(gen))
    /\ pos < Len(stream)
    /\ gen.a # gen.x
    /\ Len(gen.z) = 2
    /\ gen.z[1].key # gen.z[2].key
    /\ gen.z[1].value # gen.z[2].value

-----------------------------------------------------------------------------
(* Claims about the types the decoder does not support.                    *)

\* C33: asking the decoder for a 16-bit integer, a char, an option, a unit or
\* unit struct, an identifier, or a self-describing (any) value aborts
\* immediately without consuming any byte of the stream; it never returns a
\* decoded value nor a recoverable decode error.  Inside a struct the abort
\* comes once the fields before it are read, and nothing is decoded after it.
C33_UnsupportedAborts ==
    [][/\ (DeserializeStep /\ gen.shape \in Unsupported)
              => (last' = RPanic /\ pos' = pos /\ reader' = "panicked")
       /\ (DeserializeStep /\ gen.shape = "Opt" /\ Len(stream) - pos >= 4)
              => (last' = RPanic /\ pos' = pos + 4 /\ reader' = "panicked")
       /\ reader = "panicked" => UNCHANGED vars]_vars

\* An option was asked for over a buffer that holds bytes
C33_Witness ==
    /\ reader = "panicked"
    /\ gen.shape = "option"
    /\ Len(stream) >= 4
    /\ pos = 0
    /\ last = RPanic

-----------------------------------------------------------------------------
(* Claims about the end of a transaction log.                              *)

\* C34: if a txnlog file ends exactly after the guard byte of a complete record
\* (no zero-length terminator record follows), the next call to next() returns
\* an error (the end-of-stream error) rather than a clean end-of-stream.
C34_NoTerminatorIsError ==
    [][(reader = "txnlog" /\ tick' # tick /\ last.kind = "Ok" /\ pos = Len(stream))
          => (last' = RErr("Eof") /\ pos' = pos)]_vars

\* Two records were yielded, the file ends after the second, and the call after
\* it returned the error
C34_Witness ==
    /\ reader = "txnlog"
    /\ gen.tail = "none"
    /\ gen.cut = 0
    /\ Len(yielded) = 2
    /\ yielded[2] = TxnValue(2, gen.recs[2].op)
    /\ pos = Len(stream)
    /\ last = RErr("Eof")

-----------------------------------------------------------------------------
(* Claims about discriminants that name no variant.                        *)

\* The bytes of a record at p up to the discriminant of its operation: the
\* checksum, a length that is not 0, the TxnHeader's 28 bytes, the discriminant
OpAt(p) == Slice(stream, p + 40, 4)
HoldsOpAt(p) == p + 44 <= Len(stream) /\ ~IsZeroWord(Slice(stream, p + 8, 4))

\* C35: decoding an enum whose discriminant is present in the registered code
\* table but maps to a name that is not a variant of the target enum (OpCode
\* code 4 'GetData' while decoding a TxnOperation) fails with a decode error
\* after the discriminant bytes have been consumed; it never produces a variant
\* value.
C35_ForeignCodeFails ==
    [][(/\ reader = "txnlog"
        /\ tick' # tick
        /\ ~done
        /\ HoldsOpAt(pos)
        /\ I32OfBytes(OpAt(pos)) \in DOMAIN OpCodeNames
        /\ OpCodeNames[I32OfBytes(OpAt(pos))] \notin DOMAIN TxnOperationT.variants)
          => /\ last' = RErr("Message:UnknownVariant")
             /\ pos' = pos + 44
             /\ yielded' = yielded]_vars

\* The second record holds a GetData; the first was yielded and the call after
\* it failed behind the discriminant
C35_Witness ==
    /\ reader = "txnlog"
    /\ Len(gen.recs) = 2
    /\ gen.recs[1].op = "Delete"
    /\ gen.recs[2].op = "GetData"
    /\ yielded = <<TxnValue(1, "Delete")>>
    /\ last = RErr("Message:UnknownVariant")
    /\ pos = 16 + Len(EncRecord(1, gen.recs[1])) + 44

-----------------------------------------------------------------------------
(* Claims about the count and the errored flag of a snapshot phase.        *)

Phases == {"Sessions", "AclCache", "DataNodes"}

\* a <= b for counts
UsizeLeq(a, b) == a.wrap < b.wrap \/ (a.wrap = b.wrap /\ a.n <= b.n)

\* What next() returns on the reader as it is, and the fields it leaves
NextNow ==
    CASE reader = "Sessions" ->
            next_item(SessionT, enum_mappings, stream, Snap(pos, count, errored))
      [] reader = "AclCache" ->
            next_item(ACLCacheEntryT, enum_mappings, stream, Snap(pos, count, errored))
      [] reader = "DataNodes" ->
            data_nodes_next(enum_mappings, stream, Snap(pos, count, errored))

\* C36: within one snapshot phase, the errored flag never goes from true back
\* to false and the remaining count never increases; once errored is true or
\* the count is 0, next() returns None and reads no byte from the stream.
C36_PhaseOnlyWindsDown ==
    /\ []((reader \in Phases /\ (errored \/ UsizeIsZero(count)))
            => NextNow = [result |-> RNone, snap |-> Snap(pos, count, errored)])
    /\ [][(reader \in Phases /\ reader' = reader) =>
              /\ errored => errored'
              /\ UsizeLeq(count', count)
              /\ (errored \/ UsizeIsZero(count))
                    => (last' = RNone /\ pos' = pos /\ count' = count
                            /\ errored' = errored /\ yielded' = yielded)]_vars

\* An ACL cache entry failed to decode with one more entry counted, and the
\* call after it returned None where the failure left the cursor
C36_Witness ==
    /\ reader = "AclCache"
    /\ errored
    /\ ~UsizeIsZero(count)
    /\ errSeen
    /\ last = RNone
    /\ pos < Len(stream)

-----------------------------------------------------------------------------
(* Claims about the size limit.                                            *)

\* The types under test that hold a string
HoldsString == {"string", "seq_string", "FooBar", "Foo"}

\* The length or count that opens the buffer, and the bytes behind it
Prefix == gen.words[1]
Behind == Len(stream) - 4

\* C37: a size-limit error (Error::TooLarge) can arise only while decoding a
\* string: decoding a byte buffer accepts any 32-bit unsigned length and
\* decoding a sequence or map accepts any non-negative count, without comparing
\* them to the 1 MiB maximum.  A byte buffer or a sequence of bytes is read to
\* its length if the bytes are there, and to the end of input if they are not.
C37_OnlyStringsTooLarge ==
    [][DeserializeStep =>
          /\ last'.err = "TooLarge" => gen.shape \in HoldsString
          /\ (gen.shape = "byte_buf" /\ pos = 0) =>
                IF ULess(BytesOfI32(Behind), Prefix)
                THEN last' = RErr("Eof") /\ pos' = Len(stream)
                ELSE /\ last' = ROk(Slice(stream, 4, I32OfBytes(Prefix)))
                     /\ pos' = 4 + I32OfBytes(Prefix)
          /\ (gen.shape = "seq_u8" /\ pos = 0 /\ I32OfBytes(Prefix) >= 0) =>
                IF I32OfBytes(Prefix) > Behind
                THEN last' = RErr("Eof") /\ pos' = Len(stream)
                ELSE /\ last' = ROk(Slice(stream, 4, I32OfBytes(Prefix)))
                     /\ pos' = 4 + I32OfBytes(Prefix)
          /\ (gen.shape = "map_i8_u8" /\ pos = 0 /\ I32OfBytes(Prefix) > Behind)
                => (last' = RErr("Eof") /\ pos' = Len(stream))]_vars

\* A byte buffer one byte longer than the maximum was asked for over two bytes
C37_Witness ==
    /\ reader = "decoder"
    /\ gen.shape = "byte_buf"
    /\ I32OfBytes(Prefix) = MAX_LENGTH + 1
    /\ Behind = 2
    /\ last = RErr("Eof")
    /\ pos = Len(stream)

=============================================================================
